---- MODULE Spec2Model ----
(***************************************************************************)
(* The service worker of src/sw.js (class RafaelMunaroServiceWorker): its  *)
(* CacheStorage, the request classifier, the four caching strategies with  *)
(* their detached promises, the fallbacks and the lifecycle handlers.      *)
(*                                                                         *)
(* A URL is a sequence of lexical tokens, so that String.includes is the   *)
(* search for a contiguous sub-sequence and String.endsWith the test for a *)
(* suffix.  Every await of a handler whose order against other handlers    *)
(* matters is a step of its own.                                           *)
(*                                                                         *)
(* Spec is the worker from its first run: install, activate, fetch events  *)
(* and CLEAR_CACHE.  SpecClassify is the classifier of handleFetch on its  *)
(* own; SpecCommands the control commands of an active worker; SpecSync    *)
(* the drain of the sync queue; SpecFaulty the fetch events of an active   *)
(* worker whose CacheStorage rejects caches.open and cache.put at times;   *)
(* SpecLifecycle the lifecycle with the SKIP_WAITING message; SpecSweep    *)
(* the hourly cleanup of setupPeriodicTasks.                               *)
(***************************************************************************)
EXTENDS Naturals, Sequences, FiniteSets, TLC

\* ------------------------------------------------------------------ bounds

\* Events (fetch, message, sync, timer, enqueue) delivered to the worker in
\* one behaviour.
MaxEvents == 2
\* Detached promises (background fetches, un-awaited cache.put) in flight.
MaxBg == 2

\* ------------------------------------------------------------ cache names

STATIC_CACHE == "rafael-munaro-static-v1.0.0"
DYNAMIC_CACHE == "rafael-munaro-dynamic-v1.0.0"
IMAGE_CACHE == "rafael-munaro-images-v1.0.0"
EXTERNAL_CACHE == "external-cache"
FORM_CACHE == "form-data-cache"
\* Partitions a previous version of the worker left behind.
OLD_STATIC == "rafael-munaro-static-v0.9.0"
OLD_DYNAMIC == "rafael-munaro-dynamic-v0.9.0"

AllCacheNames ==
    {STATIC_CACHE, DYNAMIC_CACHE, IMAGE_CACHE, EXTERNAL_CACHE, FORM_CACHE,
     OLD_STATIC, OLD_DYNAMIC}

\* The version suffix of a partition name ("" when the name carries none).
VersionTag(name) ==
    CASE name \in {STATIC_CACHE, DYNAMIC_CACHE, IMAGE_CACHE} -> "v1.0.0"
      [] name \in {OLD_STATIC, OLD_DYNAMIC} -> "v0.9.0"
      [] OTHER -> ""

CurrentVersion == VersionTag(STATIC_CACHE)

\* -------------------------------------------------------------------- URLs

Origin == "https://rafaelmunaroarquitetura.com"

\* url.includes(pat): pat occurs in url as a contiguous run of tokens.
Includes(url, pat) ==
    \E i \in 1..Len(url) :
        /\ i + Len(pat) - 1 <= Len(url)
        /\ SubSeq(url, i, i + Len(pat) - 1) = pat

\* url.endsWith(suffix)
EndsWith(url, suffix) ==
    /\ Len(suffix) <= Len(url)
    /\ SubSeq(url, Len(url) - Len(suffix) + 1, Len(url)) = suffix

\* The critical assets, as the paths the source lists.
STATIC_ASSETS ==
    << <<"/">>,
       <<"/", "index", ".html">>,
       <<"/", "assets", "/", "css", "/", "styles", ".css">>,
       <<"/", "assets", "/", "css", "/", "accessibility", ".css">>,
       <<"/", "assets", "/", "js", "/", "scripts", ".js">>,
       <<"/", "assets", "/", "js", "/", "scripts-modern-secure", ".js">>,
       <<"/", "assets", "/", "js", "/", "security-monitor", ".js">>,
       <<"/", "assets", "/", "js", "/", "form-validation", ".js">>,
       <<"/", "assets", "/", "js", "/", "structured-data", ".js">>,
       <<"/", "site", ".webmanifest">>,
       <<"/", "favicon", ".ico">>,
       <<"/", "favicon-32x32", ".png">>,
       <<"/", "apple-touch-icon", ".png">> >>

EXTERNAL_ASSETS ==
    << <<"https://", "fonts.googleapis.com", "/", "css2", "?family=Inter">>,
       <<"https://", "fonts.gstatic.com", "/", "s", "/", "inter", "/", "v13",
         "/", "UcCO3FwrK3iLTeHuS", ".woff", "2">>,
       <<"https://", "fonts.gstatic.com", "/", "s", "/", "manrope", "/", "v15",
         "/", "xn7gYHE41ni1AdIRggexSvfedN5Jw", ".woff", "2">> >>

\* A path of the worker's own origin, resolved to the absolute URL that is
\* the key of a cache entry.
Resolve(path) == <<Origin>> \o path

OFFLINE_URL == Resolve(<<"/", "offline", ".html">>)
PLACEHOLDER_URL == Resolve(<<"/", "placeholder-image", ".png">>)

Range(seq) == {seq[i] : i \in 1..Len(seq)}

\* ---------------------------------------------------------------- requests

Req(method, url, destination) ==
    [method |-> method, url |-> url, destination |-> destination]

RootDoc == Req("GET", Resolve(<<"/">>), "document")
PageDoc == Req("GET", Resolve(<<"/", "sobre">>), "document")
StylesCss == Req("GET", Resolve(STATIC_ASSETS[3]), "style")
PhotoJpg ==
    Req("GET", Resolve(<<"/", "assets", "/", "images", "/", "photo", ".jpg">>),
        "image")
PlaceholderPng == Req("GET", PLACEHOLDER_URL, "image")
OfflinePage == Req("GET", OFFLINE_URL, "")
FontsCss == Req("GET", EXTERNAL_ASSETS[1], "style")
\* A font file of EXTERNAL_ASSETS: its URL has '.woff' in it.
FontWoff2 == Req("GET", EXTERNAL_ASSETS[2], "font")
ApiGet == Req("GET", Resolve(<<"/", "api", "/", "projects">>), "")
\* Non-GET requests: a form submission, and an upload to a URL that GET
\* requests have a cached entry for.
PostForm == Req("POST", Resolve(<<"/", "contato">>), "")
PostPhoto == Req("POST", PhotoJpg.url, "image")

\* The requests the pages of the site send through the worker.
Requests ==
    {RootDoc, PageDoc, StylesCss, PhotoJpg, PlaceholderPng, OfflinePage, FontsCss,
     FontWoff2, ApiGet, PostForm, PostPhoto}

\* ------------------------------------------------------------- classifier

isImageRequest(request) ==
    \/ request.destination = "image"
    \/ Includes(request.url, <<".jpg">>)
    \/ Includes(request.url, <<".png">>)
    \/ Includes(request.url, <<".webp">>)
    \/ Includes(request.url, <<".svg">>)

isApiRequest(request) ==
    \/ Includes(request.url, <<"/", "api", "/">>)
    \/ Includes(request.url, <<"unsplash.com">>)

isStaticAsset(request) ==
    \/ Includes(request.url, <<".css">>)
    \/ Includes(request.url, <<".js">>)
    \/ Includes(request.url, <<".woff">>)
    \/ Includes(request.url, <<".woff", "2">>)
    \/ \E i \in 1..Len(STATIC_ASSETS) : EndsWith(request.url, STATIC_ASSETS[i])

isExternalResource(request) ==
    \/ Includes(request.url, <<"fonts.googleapis.com">>)
    \/ Includes(request.url, <<"fonts.gstatic.com">>)
    \/ Includes(request.url, <<"cdnjs.cloudflare.com">>)

\* handleFetch without its test of request.method.
StrategyIgnoringMethod(request) ==
    IF isImageRequest(request) THEN "handleImageRequest"
    ELSE IF isApiRequest(request) THEN "handleApiRequest"
    ELSE IF isStaticAsset(request) THEN "cacheFirst"
    ELSE IF isExternalResource(request) THEN "staleWhileRevalidate"
    ELSE IF request.destination = "document" THEN "networkFirst"
    ELSE "cacheFirst"

\* handleFetch testing isApiRequest before isImageRequest.
StrategyApiFirst(request) ==
    IF request.method # "GET" THEN "networkOnly"
    ELSE IF isApiRequest(request) THEN "handleApiRequest"
    ELSE IF isImageRequest(request) THEN "handleImageRequest"
    ELSE IF isStaticAsset(request) THEN "cacheFirst"
    ELSE IF isExternalResource(request) THEN "staleWhileRevalidate"
    ELSE IF request.destination = "document" THEN "networkFirst"
    ELSE "cacheFirst"

\* The handler handleFetch passes a request to.
Strategy(request) ==
    IF request.method # "GET" THEN "networkOnly"
    ELSE IF isImageRequest(request) THEN "handleImageRequest"
    ELSE IF isApiRequest(request) THEN "handleApiRequest"
    ELSE IF isStaticAsset(request) THEN "cacheFirst"
    ELSE IF isExternalResource(request) THEN "staleWhileRevalidate"
    ELSE IF request.destination = "document" THEN "networkFirst"
    ELSE "cacheFirst"

\* --------------------------------------------------------------- responses

Response(status, body) == [status |-> status, body |-> body]

\* Response.ok
Ok(resp) == resp.status \in 200..299

\* The field of a record that holds no response.
NoResp == Response(0, "")

Bodies == {"X", "Y"}

\* The body the network serves for the assets prefetched by cache.addAll.
InstallBodies == {"X"}

\* What the network collaborator can answer: a success, a non-success
\* status, or (NetOutcomes) a rejection.
NetResponses == {Response(200, b) : b \in Bodies} \cup {Response(404, "Not Found")}

NetOutcomes ==
    {[kind |-> "response", resp |-> r] : r \in NetResponses}
        \cup {[kind |-> "error", resp |-> NoResp]}

\* What a handler's promise settles to: a response, undefined, or a rejection.
Resolved(resp) == [kind |-> "response", resp |-> resp]
Undefined == [kind |-> "undefined", resp |-> NoResp]
Rejected == [kind |-> "error", resp |-> NoResp]
Pending == [kind |-> "pending", resp |-> NoResp]

\* new Response('<h1>Offline</h1>...', {headers: {'Content-Type': 'text/html'}})
OfflineHtml == Response(200, "<h1>Offline</h1>")
\* new Response('', {status: 404})
Image404 == Response(404, "")

\* ------------------------------------------------------------------- state

VARIABLES
    cacheNames,   \* CacheStorage: the names of the existing caches, oldest first
    store,        \* store[name]: the entries <<url, response>> of cache name
    phase,        \* the worker's lifecycle state
    inst,         \* the handleInstall task
    act,          \* the handleActivate task
    clr,          \* the clearAllCaches task
    fetchTask,    \* fetchTask[s]: the handleFetch task of slot s
    bg,           \* the detached promises in flight
    events,       \* events delivered so far
    skipWaitingCalled,  \* who called self.skipWaiting(): "no", "install", "message"
    claimed,      \* self.clients.claim() was called
    sync,         \* the handleBackgroundSync task
    info,         \* the sendCacheInfo task
    upd,          \* the updateCache task
    posted,       \* the messages posted to the client, oldest first
    storage,      \* whether CacheStorage accepts caches.open: "ok" or "failing"
    cls,          \* the classifier's request and the handler chosen for it
    sweep         \* the periodic cleanup task of setupPeriodicTasks

vars ==
    <<cacheNames, store, phase, inst, act, clr, fetchTask, bg, events,
      skipWaitingCalled, claimed, sync, info, upd, posted, storage, cls,
      sweep>>

\* Fetch events the worker handles at the same time.
Slots == {1}

\* ------------------------------------------------------------ CacheStorage

Has(entries, url) == \E e \in entries : e[1] = url

Get(entries, url) == (CHOOSE e \in entries : e[1] = url)[2]

\* cache.put(request, response): a blind overwrite of the key's entry.
Put(entries, url, resp) == {e \in entries : e[1] # url} \cup {<<url, resp>>}

Remove(entries, url) == {e \in entries : e[1] # url}

Exists(name) == name \in Range(cacheNames)

\* caches.open(name): the names once name is opened (created when absent).
Opened(names, name) ==
    IF name \in Range(names) THEN names ELSE Append(names, name)

\* caches.match(request): the first match over the caches in creation order.
MatchAllHit(url) == \E i \in 1..Len(cacheNames) : Has(store[cacheNames[i]], url)

MatchAll(url) ==
    LET i == CHOOSE j \in 1..Len(cacheNames) :
                 /\ Has(store[cacheNames[j]], url)
                 /\ \A k \in 1..(j - 1) : ~Has(store[cacheNames[k]], url)
    IN  Get(store[cacheNames[i]], url)

\* A Cache object whose cache was deleted stays usable, but is no longer the
\* cache of that name: what is written through it is never seen again.
Orphan(holder, deleted) ==
    IF holder.cache \in deleted THEN [holder EXCEPT !.live = FALSE] ELSE holder

\* caches.delete(name) for every name of deleted.
Delete(deleted) ==
    /\ cacheNames' = SelectSeq(cacheNames, LAMBDA n : n \notin deleted)
    /\ store' = [n \in AllCacheNames |-> IF n \in deleted THEN {} ELSE store[n]]
    /\ bg' = {Orphan(p, deleted) : p \in bg}
    /\ fetchTask' = [s \in Slots |-> Orphan(fetchTask[s], deleted)]
    /\ inst' = Orphan(inst, deleted)
    /\ sync' = IF sync.cache \in deleted /\ sync.live
                 THEN [sync EXCEPT !.live = FALSE,
                                   !.orphaned = store[sync.cache]]
                 ELSE sync
    /\ upd' = Orphan(upd, deleted)
    /\ sweep' = IF sweep.cache \in deleted /\ sweep.live
                  THEN [sweep EXCEPT !.live = FALSE,
                                     !.orphaned = store[sweep.cache]]
                  ELSE sweep

\* A detached promise: a background fetch (kind "fetch") or a cache.put that
\* nobody awaits (kind "put"), with the Cache object it writes through.
BgFetch(origin, cache, live, url) ==
    [kind |-> "fetch", origin |-> origin, cache |-> cache, live |-> live,
     url |-> url, resp |-> NoResp]

BgPut(origin, cache, live, url, resp) ==
    [kind |-> "put", origin |-> origin, cache |-> cache, live |-> live,
     url |-> url, resp |-> resp]

\* ---------------------------------------------------------------- Init

Stale == Response(200, "old")

EmptyStore == [n \in AllCacheNames |-> {}]

\* What CacheStorage holds when the worker script is first run: nothing, the
\* partitions of the previous version, or (the worker was unregistered and
\* registered again) the partitions an earlier run of this version filled.
Leftovers ==
    { [names |-> <<>>, store |-> EmptyStore],
      [names |-> <<OLD_STATIC, OLD_DYNAMIC>>,
       store |-> [EmptyStore EXCEPT
                    ![OLD_STATIC] = {<<StylesCss.url, Stale>>},
                    ![OLD_DYNAMIC] = {<<PageDoc.url, Stale>>}]],
      [names |-> <<STATIC_CACHE, DYNAMIC_CACHE, IMAGE_CACHE>>,
       store |-> [EmptyStore EXCEPT
                    ![STATIC_CACHE] = {<<StylesCss.url, Stale>>},
                    ![DYNAMIC_CACHE] = {<<PageDoc.url, Stale>>, <<FontsCss.url, Stale>>,
                                        <<ApiGet.url, Stale>>},
                    ![IMAGE_CACHE] = {<<PhotoJpg.url, Stale>>}]] }

IdleTask ==
    [pc |-> "idle", cache |-> "none", live |-> FALSE, listed |-> <<>>,
     pending |-> <<>>]

IdleFetch ==
    [pc |-> "idle", req |-> RootDoc, strategy |-> "none", cache |-> "none",
     live |-> FALSE, hit |-> FALSE, net |-> "none", netCalls |-> 0,
     cached |-> Undefined, result |-> Pending]

\* handleBackgroundSync not started.  orphaned: what the Cache object still
\* holds once its cache was deleted; replayed, refused, failed: the keys
\* whose fetch resolved with a success status, resolved with another status,
\* was rejected.
IdleSync ==
    [pc |-> "idle", cache |-> "none", live |-> FALSE, orphaned |-> {},
     listed |-> <<>>, pending |-> <<>>, replayed |-> {}, refused |-> {},
     failed |-> {}, result |-> "none"]

\* sendCacheInfo not started.  data: cacheInfo, as pairs <<name, count>>.
IdleInfo ==
    [pc |-> "idle", listed |-> <<>>, pending |-> <<>>, data |-> {},
     result |-> "none"]

\* updateCache not started.
IdleUpdate ==
    [pc |-> "idle", cache |-> "none", live |-> FALSE, urls |-> <<>>,
     result |-> "none"]

IdleCls == [req |-> RootDoc, handler |-> "none"]

\* The cleanup of setupPeriodicTasks not running.  orphaned: what the Cache
\* object still holds once its cache was deleted; fresh: the listed keys
\* whose entry was stored after oneDayAgo; removed: the keys deleted.
IdleSweep ==
    [pc |-> "idle", cache |-> "none", live |-> FALSE, orphaned |-> {},
     listed |-> <<>>, pending |-> <<>>, fresh |-> {}, removed |-> {},
     result |-> "none"]

Init ==
    /\ \E l \in Leftovers : cacheNames = l.names /\ store = l.store
    /\ phase = "parsed"
    /\ inst = IdleTask
    /\ act = IdleTask
    /\ clr = IdleTask
    /\ fetchTask = [s \in Slots |-> IdleFetch]
    /\ bg = {}
    /\ events = 0
    /\ skipWaitingCalled = "no"
    /\ claimed = FALSE
    /\ sync = IdleSync
    /\ info = IdleInfo
    /\ upd = IdleUpdate
    /\ posted = <<>>
    /\ storage = "ok"
    /\ sweep = IdleSweep
    /\ cls = IdleCls

\* ------------------------------------------------------------ handleInstall

\* cache.addAll(urls) once every fetch succeeded: all entries stored at once.
AddAll(entries, urls, body) ==
    {e \in entries : e[1] \notin Range(urls)}
        \cup {<<urls[i], Response(200, body)>> : i \in 1..Len(urls)}

StaticUrls == [i \in 1..Len(STATIC_ASSETS) |-> Resolve(STATIC_ASSETS[i])]

\* handleInstall with no try/catch: the promise given to event.waitUntil is
\* rejected and the worker is discarded.
InstallRejects == "redundant"

\* The catch of handleInstall logs the error: the promise given to
\* event.waitUntil is fulfilled and the worker is installed.
InstallCatch == "installed"

\* The install event: caches.open(STATIC_CACHE), then addAll is awaited.
InstallOpenStatic ==
    /\ phase = "parsed"
    /\ phase' = "installing"
    /\ cacheNames' = Opened(cacheNames, STATIC_CACHE)
    /\ inst' = [IdleTask EXCEPT !.pc = "addStatic", !.cache = STATIC_CACHE,
                                !.live = TRUE]
    /\ UNCHANGED <<sync, info, upd, posted, storage, cls,
                   store, act, clr, fetchTask, bg, events, skipWaitingCalled, claimed, sweep>>

\* addAll(STATIC_ASSETS) settles; on success caches.open('external-cache')
\* follows, on failure the catch ends the install.
InstallAddStatic ==
    /\ inst.pc = "addStatic"
    /\ \/ \E b \in InstallBodies :
            /\ store' = IF inst.live
                          THEN [store EXCEPT ![STATIC_CACHE] =
                                   AddAll(@, StaticUrls, b)]
                          ELSE store
            /\ cacheNames' = Opened(cacheNames, EXTERNAL_CACHE)
            /\ inst' = [inst EXCEPT !.pc = "addExternal",
                                    !.cache = EXTERNAL_CACHE, !.live = TRUE]
            /\ phase' = phase
       \/ /\ inst' = [inst EXCEPT !.pc = "done"]
          /\ phase' = InstallCatch
          /\ UNCHANGED <<store, cacheNames>>
    /\ UNCHANGED <<sync, info, upd, posted, storage, cls,
                   act, clr, fetchTask, bg, events, skipWaitingCalled,
                   claimed, sweep>>

\* addAll(EXTERNAL_ASSETS) settles; on success self.skipWaiting() is called.
InstallAddExternal ==
    /\ inst.pc = "addExternal"
    /\ \/ \E b \in InstallBodies :
            /\ store' = IF inst.live
                          THEN [store EXCEPT ![EXTERNAL_CACHE] =
                                   AddAll(@, EXTERNAL_ASSETS, b)]
                          ELSE store
            /\ skipWaitingCalled' = "install"
            /\ phase' = "installed"
       \/ /\ phase' = InstallCatch
          /\ UNCHANGED <<store, skipWaitingCalled>>
    /\ inst' = [inst EXCEPT !.pc = "done"]
    /\ UNCHANGED <<sync, info, upd, posted, storage, cls,
                   cacheNames, act, clr, fetchTask, bg, events, claimed, sweep>>

\* ----------------------------------------------------------- handleActivate

\* handleActivate with name !== STATIC_CACHE missing from its filter.
oldCachesWithStatic(names) ==
    SelectSeq(names, LAMBDA n :
        n \notin {DYNAMIC_CACHE, IMAGE_CACHE, EXTERNAL_CACHE})

\* The filter of handleActivate: the names it keeps.
KeptByActivate == {STATIC_CACHE, DYNAMIC_CACHE, IMAGE_CACHE, EXTERNAL_CACHE}

oldCaches(names) == SelectSeq(names, LAMBDA n : n \notin KeptByActivate)

\* The activate event: caches.keys() and the filter.
ActivateKeys ==
    /\ phase = "installed"
    /\ phase' = "activating"
    /\ act' = [act EXCEPT !.pc = "delete", !.listed = cacheNames,
                           !.pending = oldCaches(cacheNames)]
    /\ UNCHANGED <<sync, info, upd, posted, storage, cls,
                   cacheNames, store, inst, clr, fetchTask, bg, events, skipWaitingCalled, claimed, sweep>>

\* One caches.delete(cache) of the Promise.all: the deletions are requested
\* in the order of the list and take effect in that order.
ActivateDelete ==
    /\ act.pc = "delete"
    /\ act.pending # <<>>
    /\ Delete({Head(act.pending)})
    /\ act' = [act EXCEPT !.pending = Tail(@)]
    /\ UNCHANGED <<info, posted, storage, cls,
                   phase, clr, events, skipWaitingCalled, claimed, sweep>>

\* Promise.all settled: self.clients.claim().
ActivateClaim ==
    /\ act.pc = "delete"
    /\ act.pending = <<>>
    /\ act' = [act EXCEPT !.pc = "done"]
    /\ phase' = "activated"
    /\ claimed' = TRUE
    /\ UNCHANGED <<sync, info, upd, posted, storage, cls,
                   cacheNames, store, inst, clr, fetchTask, bg, events, skipWaitingCalled, sweep>>

\* ---------------------------------------------------------------- fallbacks

\* A value of the running script: a Promise object is a value too.
PromiseOf(settled) ==
    [kind |-> "promise", resp |-> settled.resp, settles |-> settled.kind]

\* a || b: b only when a is falsy; a Response and a Promise are truthy.
JsOr(a, b) == IF a.kind = "undefined" THEN b ELSE a

\* What returning value from an async function settles its promise to.
Await(value) ==
    IF value.kind = "promise"
      THEN [kind |-> value.settles, resp |-> value.resp]
      ELSE value

\* cache.match(url) on one cache: the entry, or undefined.
MatchIn(entries, url) ==
    IF Has(entries, url) THEN Resolved(Get(entries, url)) ELSE Undefined

\* caches.match(url) over CacheStorage: the first entry, or undefined.
MatchAny(url) == IF MatchAllHit(url) THEN Resolved(MatchAll(url)) ELSE Undefined

\* caches.open(name) is rejected: CacheStorage cannot open or create a
\* partition.  Lookups, caches.keys() and caches.delete() still work.
OpenFails == storage = "failing"

\* The names of CacheStorage after offlineFallback() tried to open
\* STATIC_CACHE.
FallbackOpened(names) ==
    IF OpenFails THEN names ELSE Opened(names, STATIC_CACHE)

\* offlineFallback(): await caches.open(STATIC_CACHE), which may be rejected,
\* then cache.match('/offline.html') || new Response(...)
offlineFallback ==
    IF OpenFails
      THEN Rejected
      ELSE Await(JsOr(PromiseOf(MatchIn(store[STATIC_CACHE], OFFLINE_URL)),
                      Resolved(OfflineHtml)))

\* imageFallback(): caches.match('/placeholder-image.png') || new Response('', ...)
imageFallback ==
    Await(JsOr(PromiseOf(MatchAny(PLACEHOLDER_URL)), Resolved(Image404)))

\* -------------------------------------------------------------- handleFetch

\* The first await of the handler a request is passed to.
FirstPc(strategy) ==
    CASE strategy = "cacheFirst" -> "cacheFirst.match"
      [] strategy = "networkFirst" -> "networkFirst.fetch"
      [] strategy = "staleWhileRevalidate" -> "staleWhileRevalidate.match"
      [] strategy = "handleImageRequest" -> "handleImageRequest.match"
      [] strategy = "handleApiRequest" -> "handleApiRequest.fetch"
      [] strategy = "networkOnly" -> "networkOnly.fetch"

\* Whether the handler calls fetch(request) before its first await.
FetchesFirst(strategy) ==
    strategy \in {"networkFirst", "handleApiRequest", "networkOnly"}

\* A detached promise can be added to those in flight.
BgRoom(p) == p \in bg \/ Cardinality(bg) < MaxBg

\* A fetch event: handleFetch classifies the request and calls its handler.
HandleFetch(s) ==
    /\ phase = "activated"
    /\ events < MaxEvents
    /\ fetchTask[s].pc \in {"idle", "done"}
    /\ \E request \in Requests :
          fetchTask' = [fetchTask EXCEPT ![s] =
              [IdleFetch EXCEPT
                  !.req = request,
                  !.strategy = Strategy(request),
                  !.pc = FirstPc(Strategy(request)),
                  !.net = IF FetchesFirst(Strategy(request))
                            THEN "pending" ELSE "none",
                  !.netCalls = IF FetchesFirst(Strategy(request)) THEN 1 ELSE 0]]
    /\ events' = events + 1
    /\ UNCHANGED <<sync, info, upd, posted, storage, cls,
                   cacheNames, store, phase, inst, act, clr, bg, skipWaitingCalled, claimed, sweep>>

\* How a task records the outcome of its network call.
NetOf(outcome) ==
    IF outcome.kind = "error" THEN "rejected"
    ELSE IF Ok(outcome.resp) THEN "ok" ELSE "notOk"

\* The handler returns: its promise settles to result.
Return(task, result) == [task EXCEPT !.pc = "done", !.result = result]

\* cacheFirst calling fetch(request) whatever caches.match found.
CacheFirstMatchThenFetch(s) ==
    LET t == fetchTask[s] IN
    /\ t.pc = "cacheFirst.match"
    /\ fetchTask' = [fetchTask EXCEPT ![s] =
          [t EXCEPT !.hit = MatchAllHit(t.req.url), !.pc = "cacheFirst.fetch",
                    !.net = "pending", !.netCalls = @ + 1]]
    /\ UNCHANGED <<sync, info, upd, posted, storage, cls,
                   cacheNames, store, phase, inst, act, clr, bg, events,
                   skipWaitingCalled, claimed, sweep>>

\* cacheFirst: caches.match(request) settles; a hit is returned, a miss
\* calls fetch(request).
CacheFirstMatch(s) ==
    LET t == fetchTask[s] IN
    /\ t.pc = "cacheFirst.match"
    /\ fetchTask' = [fetchTask EXCEPT ![s] =
          IF MatchAllHit(t.req.url)
            THEN Return([t EXCEPT !.hit = TRUE], Resolved(MatchAll(t.req.url)))
            ELSE [t EXCEPT !.pc = "cacheFirst.fetch", !.net = "pending",
                           !.netCalls = @ + 1]]
    /\ UNCHANGED <<sync, info, upd, posted, storage, cls,
                   cacheNames, store, phase, inst, act, clr, bg, events, skipWaitingCalled, claimed, sweep>>

\* cacheFirst with the put going to the cache networkFirst writes.
CacheFirstPutDynamic(url, resp) ==
    BgPut("cacheFirst", DYNAMIC_CACHE, TRUE, url, resp)

\* cacheFirst: cache.put(request, networkResponse.clone()) on the cache
\* caches.open(STATIC_CACHE) gave; the put is not awaited.
CacheFirstPut(url, resp) == BgPut("cacheFirst", STATIC_CACHE, TRUE, url, resp)

\* cacheFirst without its catch: the error goes to the caller.
CacheFirstRethrows == Rejected

\* cacheFirst's catch: return this.offlineFallback().
CacheFirstCatch == offlineFallback

\* cacheFirst: fetch(request) settles.  A success is put into STATIC_CACHE
\* and the response returned; a rejection, of fetch or of the
\* caches.open(STATIC_CACHE) that follows a success, is caught.
CacheFirstFetch(s) ==
    LET t == fetchTask[s] IN
    /\ t.pc = "cacheFirst.fetch"
    /\ \E o \in NetOutcomes :
          LET put == CacheFirstPut(t.req.url, o.resp)
              u == [t EXCEPT !.net = NetOf(o)]
          IN  IF o.kind = "response" /\ ~(Ok(o.resp) /\ OpenFails)
                THEN /\ Ok(o.resp) => BgRoom(put)
                     /\ bg' = IF Ok(o.resp) THEN bg \cup {put} ELSE bg
                     /\ cacheNames' = IF Ok(o.resp)
                                        THEN Opened(cacheNames, STATIC_CACHE)
                                        ELSE cacheNames
                     /\ fetchTask' = [fetchTask EXCEPT ![s] =
                                         Return(u, Resolved(o.resp))]
                ELSE /\ bg' = bg
                     /\ cacheNames' = FallbackOpened(cacheNames)
                     /\ fetchTask' = [fetchTask EXCEPT ![s] =
                                         Return(u, CacheFirstCatch)]
    /\ UNCHANGED <<sync, info, upd, posted, storage, cls,
                   store, phase, inst, act, clr, events, skipWaitingCalled,
                   claimed, sweep>>


\* networkFirst: fetch(request) settles.  A success is put into
\* DYNAMIC_CACHE and the response returned; a rejection, of fetch or of the
\* caches.open(DYNAMIC_CACHE) that follows a success, goes on to
\* caches.match(request).
NetworkFirstFetch(s) ==
    LET t == fetchTask[s] IN
    /\ t.pc = "networkFirst.fetch"
    /\ \E o \in NetOutcomes :
          LET put == BgPut("networkFirst", DYNAMIC_CACHE, TRUE, t.req.url, o.resp)
              u == [t EXCEPT !.net = NetOf(o)]
          IN  IF o.kind = "response" /\ ~(Ok(o.resp) /\ OpenFails)
                THEN /\ Ok(o.resp) => BgRoom(put)
                     /\ bg' = IF Ok(o.resp) THEN bg \cup {put} ELSE bg
                     /\ cacheNames' = IF Ok(o.resp)
                                        THEN Opened(cacheNames, DYNAMIC_CACHE)
                                        ELSE cacheNames
                     /\ fetchTask' = [fetchTask EXCEPT ![s] =
                                         Return(u, Resolved(o.resp))]
                ELSE /\ bg' = bg
                     /\ cacheNames' = cacheNames
                     /\ fetchTask' = [fetchTask EXCEPT ![s] =
                                         [u EXCEPT !.pc = "networkFirst.match"]]
    /\ UNCHANGED <<sync, info, upd, posted, storage, cls,
                   store, phase, inst, act, clr, events, skipWaitingCalled, claimed, sweep>>

\* networkFirst, in the catch: caches.match(request) settles; a hit is
\* returned, a miss returns offlineFallback().
NetworkFirstMatch(s) ==
    LET t == fetchTask[s] IN
    /\ t.pc = "networkFirst.match"
    /\ IF MatchAllHit(t.req.url)
         THEN /\ fetchTask' = [fetchTask EXCEPT ![s] =
                    Return([t EXCEPT !.hit = TRUE], Resolved(MatchAll(t.req.url)))]
              /\ cacheNames' = cacheNames
         ELSE /\ fetchTask' = [fetchTask EXCEPT ![s] = Return(t, offlineFallback)]
              /\ cacheNames' = FallbackOpened(cacheNames)
    /\ UNCHANGED <<sync, info, upd, posted, storage, cls,
                   store, phase, inst, act, clr, bg, events, skipWaitingCalled, claimed, sweep>>

\* The promise of a fetch(request) that has not settled.
FetchPromise == [kind |-> "promise", resp |-> NoResp, settles |-> "pending"]

\* staleWhileRevalidate returning fetchPromise whatever is cached.
ReturnsFetchPromise(cachedResponse) == FetchPromise

\* staleWhileRevalidate: return cachedResponse || fetchPromise
StaleOrFetchPromise(cachedResponse) == JsOr(cachedResponse, FetchPromise)

\* staleWhileRevalidate: caches.open(DYNAMIC_CACHE) and cache.match(request)
\* settled; fetch(request) is called.  A cached response is returned without
\* waiting for it, and the fetch goes on detached; with nothing cached the
\* caller gets fetchPromise.  A rejected caches.open rejects the handler
\* before it calls fetch.
StaleWhileRevalidateMatch(s) ==
    LET t == fetchTask[s]
        cachedResponse == MatchIn(store[DYNAMIC_CACHE], t.req.url)
        refresh == BgFetch("staleWhileRevalidate", DYNAMIC_CACHE, TRUE, t.req.url)
        u == [t EXCEPT !.cache = DYNAMIC_CACHE, !.live = TRUE,
                       !.cached = cachedResponse,
                       !.hit = cachedResponse.kind = "response",
                       !.net = "pending", !.netCalls = @ + 1]
    IN
    /\ t.pc = "staleWhileRevalidate.match"
    /\ IF OpenFails
         THEN /\ cacheNames' = cacheNames
              /\ bg' = bg
              /\ fetchTask' = [fetchTask EXCEPT ![s] = Return(t, Rejected)]
         ELSE /\ cacheNames' = Opened(cacheNames, DYNAMIC_CACHE)
              /\ IF StaleOrFetchPromise(cachedResponse).kind = "promise"
                   THEN /\ bg' = bg
                        /\ fetchTask' = [fetchTask EXCEPT ![s] =
                              [u EXCEPT !.pc = "staleWhileRevalidate.fetch"]]
                   ELSE /\ BgRoom(refresh)
                        /\ bg' = bg \cup {refresh}
                        /\ fetchTask' = [fetchTask EXCEPT ![s] =
                              Return(u, StaleOrFetchPromise(cachedResponse))]
    /\ UNCHANGED <<sync, info, upd, posted, storage, cls,
                   store, phase, inst, act, clr, events, skipWaitingCalled,
                   claimed, sweep>>


\* staleWhileRevalidate with nothing cached: fetchPromise settles.  A
\* success is put into the cache; a rejection is caught to cachedResponse.
StaleWhileRevalidateFetch(s) ==
    LET t == fetchTask[s] IN
    /\ t.pc = "staleWhileRevalidate.fetch"
    /\ \E o \in NetOutcomes :
          LET put == BgPut("staleWhileRevalidate", t.cache, t.live, t.req.url,
                           o.resp)
              u == [t EXCEPT !.net = NetOf(o)]
          IN  IF o.kind = "response"
                THEN /\ Ok(o.resp) => BgRoom(put)
                     /\ bg' = IF Ok(o.resp) THEN bg \cup {put} ELSE bg
                     /\ fetchTask' = [fetchTask EXCEPT ![s] =
                                         Return(u, Resolved(o.resp))]
                ELSE /\ bg' = bg
                     /\ fetchTask' = [fetchTask EXCEPT ![s] = Return(u, t.cached)]
    /\ UNCHANGED <<sync, info, upd, posted, storage, cls,
                   cacheNames, store, phase, inst, act, clr, events, skipWaitingCalled, claimed, sweep>>

\* handleImageRequest refreshing through the Cache object of DYNAMIC_CACHE.
ImageRefreshDynamic(url) == BgFetch("handleImageRequest", DYNAMIC_CACHE, TRUE, url)

\* handleImageRequest, on a hit: fetch(request).then(...) on the Cache
\* object caches.open(IMAGE_CACHE) gave, not awaited.
ImageRefresh(url) == BgFetch("handleImageRequest", IMAGE_CACHE, TRUE, url)

\* handleImageRequest awaiting fetch(request) also when the cache has the
\* image.
ImageMatchAwaitsFetch(s) ==
    LET t == fetchTask[s]
        cachedResponse == MatchIn(store[IMAGE_CACHE], t.req.url)
    IN
    /\ t.pc = "handleImageRequest.match"
    /\ cacheNames' = Opened(cacheNames, IMAGE_CACHE)
    /\ fetchTask' = [fetchTask EXCEPT ![s] =
          [t EXCEPT !.cache = IMAGE_CACHE, !.live = TRUE,
                    !.cached = cachedResponse,
                    !.hit = cachedResponse.kind = "response",
                    !.net = "pending", !.netCalls = @ + 1,
                    !.pc = "handleImageRequest.fetch"]]
    /\ UNCHANGED <<store, phase, inst, act, clr, bg, events, skipWaitingCalled,
                   claimed, sync, info, upd, posted, storage, cls, sweep>>

\* handleImageRequest: caches.open(IMAGE_CACHE) and cache.match(request)
\* settled.  A hit is returned while a background fetch refreshes it; a miss
\* calls fetch(request) and awaits it.  A rejected caches.open rejects the
\* handler before it calls fetch.
ImageMatch(s) ==
    LET t == fetchTask[s]
        cachedResponse == MatchIn(store[IMAGE_CACHE], t.req.url)
        u == [t EXCEPT !.cache = IMAGE_CACHE, !.live = TRUE,
                       !.cached = cachedResponse,
                       !.hit = cachedResponse.kind = "response",
                       !.net = "pending", !.netCalls = @ + 1]
    IN
    /\ t.pc = "handleImageRequest.match"
    /\ IF OpenFails
         THEN /\ cacheNames' = cacheNames
              /\ bg' = bg
              /\ fetchTask' = [fetchTask EXCEPT ![s] = Return(t, Rejected)]
         ELSE /\ cacheNames' = Opened(cacheNames, IMAGE_CACHE)
              /\ IF cachedResponse.kind = "response"
                   THEN /\ BgRoom(ImageRefresh(t.req.url))
                        /\ bg' = bg \cup {ImageRefresh(t.req.url)}
                        /\ fetchTask' = [fetchTask EXCEPT ![s] =
                              Return(u, cachedResponse)]
                   ELSE /\ bg' = bg
                        /\ fetchTask' = [fetchTask EXCEPT ![s] =
                              [u EXCEPT !.pc = "handleImageRequest.fetch"]]
    /\ UNCHANGED <<sync, info, upd, posted, storage, cls,
                   store, phase, inst, act, clr, events, skipWaitingCalled,
                   claimed, sweep>>


\* handleImageRequest putting the response whatever its status.
ImageFetchStoresAny(s) ==
    LET t == fetchTask[s] IN
    /\ t.pc = "handleImageRequest.fetch"
    /\ \E o \in NetOutcomes :
          LET put == BgPut("handleImageRequest", t.cache, t.live, t.req.url,
                           o.resp)
              u == [t EXCEPT !.net = NetOf(o)]
          IN  IF o.kind = "response"
                THEN /\ BgRoom(put)
                     /\ bg' = bg \cup {put}
                     /\ fetchTask' = [fetchTask EXCEPT ![s] =
                                         Return(u, Resolved(o.resp))]
                ELSE /\ bg' = bg
                     /\ fetchTask' = [fetchTask EXCEPT ![s] =
                                         Return(u, imageFallback)]
    /\ UNCHANGED <<sync, info, upd, posted, storage, cls,
                   cacheNames, store, phase, inst, act, clr, events,
                   skipWaitingCalled, claimed, sweep>>

\* handleImageRequest with nothing cached: fetch(request) settles.  A
\* success is put into the cache; a rejection returns imageFallback().
ImageFetch(s) ==
    LET t == fetchTask[s] IN
    /\ t.pc = "handleImageRequest.fetch"
    /\ \E o \in NetOutcomes :
          LET put == BgPut("handleImageRequest", t.cache, t.live, t.req.url,
                           o.resp)
              u == [t EXCEPT !.net = NetOf(o)]
          IN  IF o.kind = "response"
                THEN /\ Ok(o.resp) => BgRoom(put)
                     /\ bg' = IF Ok(o.resp) THEN bg \cup {put} ELSE bg
                     /\ fetchTask' = [fetchTask EXCEPT ![s] =
                                         Return(u, Resolved(o.resp))]
                ELSE /\ bg' = bg
                     /\ fetchTask' = [fetchTask EXCEPT ![s] =
                                         Return(u, imageFallback)]
    /\ UNCHANGED <<sync, info, upd, posted, storage, cls,
                   cacheNames, store, phase, inst, act, clr, events, skipWaitingCalled, claimed, sweep>>

\* handleFetch, request.method !== 'GET': return fetch(request).  The
\* network's answer, response or rejection, is the handler's.
NetworkOnlyFetch(s) ==
    LET t == fetchTask[s] IN
    /\ t.pc = "networkOnly.fetch"
    /\ \E o \in NetOutcomes :
          fetchTask' = [fetchTask EXCEPT ![s] =
              Return([t EXCEPT !.net = NetOf(o)],
                     IF o.kind = "response" THEN Resolved(o.resp) ELSE Rejected)]
    /\ UNCHANGED <<cacheNames, store, phase, inst, act, clr, bg, events,
                   skipWaitingCalled, claimed, sync, info, upd, posted, storage,
                   cls, sweep>>

\* handleApiRequest: fetch(request) settles.  Any response is returned as it
\* is; a rejection goes on to caches.match(request).
ApiFetch(s) ==
    LET t == fetchTask[s] IN
    /\ t.pc = "handleApiRequest.fetch"
    /\ \E o \in NetOutcomes :
          fetchTask' = [fetchTask EXCEPT ![s] =
              IF o.kind = "response"
                THEN Return([t EXCEPT !.net = NetOf(o)], Resolved(o.resp))
                ELSE [t EXCEPT !.net = NetOf(o), !.pc = "handleApiRequest.match"]]
    /\ UNCHANGED <<cacheNames, store, phase, inst, act, clr, bg, events,
                   skipWaitingCalled, claimed, sync, info, upd, posted, storage,
                   cls, sweep>>

\* handleApiRequest ending like the other handlers, with offlineFallback().
ApiFallsBack == offlineFallback

\* handleApiRequest's catch after caches.match found nothing: throw error.
ApiRethrow == Rejected

\* handleApiRequest, in the catch: caches.match(request) settles; a hit is
\* returned, a miss rethrows the network error.
ApiMatch(s) ==
    LET t == fetchTask[s] IN
    /\ t.pc = "handleApiRequest.match"
    /\ fetchTask' = [fetchTask EXCEPT ![s] =
          IF MatchAllHit(t.req.url)
            THEN Return([t EXCEPT !.hit = TRUE], Resolved(MatchAll(t.req.url)))
            ELSE Return(t, ApiRethrow)]
    /\ UNCHANGED <<cacheNames, store, phase, inst, act, clr, bg, events,
                   skipWaitingCalled, claimed, sync, info, upd, posted, storage,
                   cls, sweep>>

\* ------------------------------------------------------- detached promises

\* A background fetch settles: a success is put into the cache the handler
\* had opened, anything else is dropped.
BgFetchSettle ==
    \E p \in bg :
      /\ p.kind = "fetch"
      /\ \E o \in NetOutcomes :
            bg' = IF o.kind = "response" /\ Ok(o.resp)
                    THEN (bg \ {p}) \cup
                           {BgPut(p.origin, p.cache, p.live, p.url, o.resp)}
                    ELSE bg \ {p}
      /\ UNCHANGED <<sync, info, upd, posted, storage, cls,
                     cacheNames, store, phase, inst, act, clr, fetchTask, events,
                     skipWaitingCalled, claimed, sweep>>

\* A cache.put settles: the entry is written through the Cache object, or
\* the put is rejected and, nothing awaiting it, the rejection is lost.
BgPutSettle ==
    \E p \in bg :
      /\ p.kind = "put"
      /\ store' = IF p.live /\ storage = "ok"
                    THEN [store EXCEPT ![p.cache] = Put(@, p.url, p.resp)]
                    ELSE store
      /\ bg' = bg \ {p}
      /\ UNCHANGED <<sync, info, upd, posted, storage, cls,
                     cacheNames, phase, inst, act, clr, fetchTask, events,
                     skipWaitingCalled, claimed, sweep>>

\* ------------------------------------------------------------ clearAllCaches

\* clearAllCaches deleting what handleActivate deletes.
ClearNamesOld(names) == oldCaches(names)

\* clearAllCaches: const cacheNames = await caches.keys()
ClearNames(names) == names

\* The message CLEAR_CACHE: clearAllCaches lists the names with caches.keys().
ClearKeys ==
    /\ phase # "parsed"
    /\ events < MaxEvents
    /\ clr.pc \in {"idle", "done"}
    /\ clr' = [clr EXCEPT !.pc = "delete", !.listed = ClearNames(cacheNames),
                           !.pending = ClearNames(cacheNames)]
    /\ events' = events + 1
    /\ UNCHANGED <<sync, info, upd, posted, storage, cls,
                   cacheNames, store, phase, inst, act, fetchTask, bg, skipWaitingCalled, claimed, sweep>>

\* One caches.delete(name) of the Promise.all, in the order of the list.
ClearDelete ==
    /\ clr.pc = "delete"
    /\ clr.pending # <<>>
    /\ Delete({Head(clr.pending)})
    /\ clr' = [clr EXCEPT !.pending = Tail(@)]
    /\ UNCHANGED <<info, posted, storage, cls,
                   phase, act, events, skipWaitingCalled, claimed, sweep>>

\* Promise.all settled: clearAllCaches is done.
ClearDone ==
    /\ clr.pc = "delete"
    /\ clr.pending = <<>>
    /\ clr' = [clr EXCEPT !.pc = "done"]
    /\ UNCHANGED <<sync, info, upd, posted, storage, cls,
                   cacheNames, store, phase, inst, act, fetchTask, bg, events,
                   skipWaitingCalled, claimed, sweep>>

\* ---------------------------------------------------------------- SyncQueue

\* The deferred submissions a page can queue.
SyncTasks ==
    { <<Resolve(<<"/", "contato", "?envio=1">>), Response(200, "form 1")>>,
      <<Resolve(<<"/", "contato", "?envio=2">>), Response(200, "form 2")>>,
      <<Resolve(<<"/", "contato", "?envio=3">>), Response(200, "form 3")>> }

\* enqueue(request): a page stores a deferred request in 'form-data-cache'.
Enqueue ==
    /\ events < MaxEvents
    /\ \E task \in SyncTasks :
          /\ cacheNames' = Opened(cacheNames, FORM_CACHE)
          /\ store' = [store EXCEPT ![FORM_CACHE] = Put(@, task[1], task[2])]
    /\ events' = events + 1
    /\ UNCHANGED <<sync, info, upd, posted, storage, cls,
                   phase, inst, act, clr, fetchTask, bg, skipWaitingCalled,
                   claimed, sweep>>

\* ------------------------------------------------------------ sendCacheInfo

\* A message the worker posts to a client.
CacheInfoMessage(data) == [type |-> "CACHE_INFO", data |-> data]

\* sendCacheInfo reporting only the caches handleActivate keeps.
InfoNamesKept(names) == SelectSeq(names, LAMBDA n : n \in KeptByActivate)

\* const cacheNames = await caches.keys()
InfoNames(names) == names

\* The message GET_CACHE_INFO: sendCacheInfo lists the names with
\* caches.keys(); with no name to visit it posts the empty cacheInfo.
InfoKeys ==
    /\ phase # "parsed"
    /\ events < MaxEvents
    /\ info.pc \in {"idle", "done"}
    /\ events' = events + 1
    /\ IF InfoNames(cacheNames) = <<>>
         THEN /\ info' = [IdleInfo EXCEPT !.pc = "done", !.result = "posted"]
              /\ posted' = Append(posted, CacheInfoMessage({}))
         ELSE /\ info' = [IdleInfo EXCEPT !.pc = "count",
                                          !.listed = InfoNames(cacheNames),
                                          !.pending = InfoNames(cacheNames)]
              /\ posted' = posted
    /\ UNCHANGED <<cacheNames, store, phase, inst, act, clr, fetchTask, bg,
                   skipWaitingCalled, claimed, sync, upd, storage, cls, sweep>>

\* One turn of the loop: caches.open(cacheName), which creates the cache
\* when it was deleted since it was listed, and cache.keys(); after the last
\* name the message is posted.  A rejected caches.open is caught: nothing is
\* posted.
InfoCount ==
    /\ info.pc = "count"
    /\ IF storage = "failing"
         THEN /\ info' = [info EXCEPT !.pc = "done", !.result = "caught"]
              /\ UNCHANGED <<cacheNames, posted>>
         ELSE LET cacheName == Head(info.pending)
                  cacheInfo == {e \in info.data : e[1] # cacheName}
                                  \cup {<<cacheName, Cardinality(store[cacheName])>>}
              IN  /\ cacheNames' = Opened(cacheNames, cacheName)
                  /\ IF Tail(info.pending) = <<>>
                       THEN /\ info' = [info EXCEPT !.pc = "done",
                                           !.pending = <<>>, !.data = cacheInfo,
                                           !.result = "posted"]
                            /\ posted' = Append(posted, CacheInfoMessage(cacheInfo))
                       ELSE /\ info' = [info EXCEPT !.pending = Tail(@),
                                                    !.data = cacheInfo]
                            /\ posted' = posted
    /\ UNCHANGED <<store, phase, inst, act, clr, fetchTask, bg, events,
                   skipWaitingCalled, claimed, sync, upd, storage, cls, sweep>>

\* -------------------------------------------------------------- updateCache

\* The lists of URLs a page sends with UPDATE_CACHE.
UpdateUrls == { <<PageDoc.url>>, <<PageDoc.url, ApiGet.url>> }

\* updateCache opening the cache cacheFirst writes.
UpdateTargetStatic == STATIC_CACHE

\* updateCache: caches.open(DYNAMIC_CACHE)
UpdateTarget == DYNAMIC_CACHE

\* The message UPDATE_CACHE: updateCache(data.urls) opens its cache.  A
\* rejected caches.open is caught.
UpdateOpen ==
    /\ phase # "parsed"
    /\ events < MaxEvents
    /\ upd.pc \in {"idle", "done"}
    /\ events' = events + 1
    /\ \E urls \in UpdateUrls :
          IF storage = "failing"
            THEN /\ upd' = [IdleUpdate EXCEPT !.pc = "done", !.urls = urls,
                                              !.result = "caught"]
                 /\ cacheNames' = cacheNames
            ELSE /\ upd' = [IdleUpdate EXCEPT !.pc = "addAll", !.urls = urls,
                                              !.cache = UpdateTarget,
                                              !.live = TRUE]
                 /\ cacheNames' = Opened(cacheNames, UpdateTarget)
    /\ UNCHANGED <<store, phase, inst, act, clr, fetchTask, bg,
                   skipWaitingCalled, claimed, sync, info, posted, storage, cls, sweep>>

\* await cache.addAll(urls) settles: every response is stored, or (a fetch
\* was rejected or answered with a non-success status) none is and the
\* rejection is caught.
UpdateAddAll ==
    /\ upd.pc = "addAll"
    /\ \/ \E b \in InstallBodies :
            /\ store' = IF upd.live
                          THEN [store EXCEPT ![upd.cache] = AddAll(@, upd.urls, b)]
                          ELSE store
            /\ upd' = [upd EXCEPT !.pc = "done", !.result = "stored"]
       \/ /\ store' = store
          /\ upd' = [upd EXCEPT !.pc = "done", !.result = "caught"]
    /\ UNCHANGED <<cacheNames, phase, inst, act, clr, fetchTask, bg, events,
                   skipWaitingCalled, claimed, sync, info, posted, storage, cls, sweep>>

\* ------------------------------------------------------------ the commands

\* The entries of a completed install.
Installed ==
    [EmptyStore EXCEPT
        ![STATIC_CACHE] = AddAll({}, StaticUrls, "X"),
        ![EXTERNAL_CACHE] = AddAll({}, EXTERNAL_ASSETS, "X")]

\* What CacheStorage holds once the worker is active: nothing (the install
\* failed at its first fetch), what the install stored, or that and what
\* requests and pages have added since.
ActiveStores ==
    { [names |-> <<>>, store |-> EmptyStore],
      [names |-> <<STATIC_CACHE, EXTERNAL_CACHE>>, store |-> Installed],
      [names |-> <<STATIC_CACHE, EXTERNAL_CACHE, DYNAMIC_CACHE, IMAGE_CACHE,
                   FORM_CACHE>>,
       store |-> [Installed EXCEPT
                    ![DYNAMIC_CACHE] = {<<PageDoc.url, Stale>>},
                    ![IMAGE_CACHE] = {<<PhotoJpg.url, Stale>>},
                    ![FORM_CACHE] = SyncTasks]] }

\* The worker is active and idle when the pages send their commands.
InitCommands ==
    /\ \E l \in ActiveStores : cacheNames = l.names /\ store = l.store
    /\ phase = "activated"
    /\ inst = [IdleTask EXCEPT !.pc = "done"]
    /\ act = [IdleTask EXCEPT !.pc = "done"]
    /\ clr = IdleTask
    /\ fetchTask = [s \in Slots |-> IdleFetch]
    /\ bg = {}
    /\ events = 0
    /\ skipWaitingCalled = "no"
    /\ claimed = TRUE
    /\ sync = IdleSync
    /\ info = IdleInfo
    /\ upd = IdleUpdate
    /\ posted = <<>>
    /\ storage = "ok"
    /\ sweep = IdleSweep
    /\ cls = IdleCls

\* The control commands of the pages, with no fetch event.
NextCommands ==
    \/ ClearKeys
    \/ ClearDelete
    \/ ClearDone
    \/ InfoKeys
    \/ InfoCount
    \/ UpdateOpen
    \/ UpdateAddAll

SpecCommands == InitCommands /\ [][NextCommands]_vars

\* ----------------------------------------------------- handleBackgroundSync

\* The orders cache.keys() can list the keys of entries in.
RECURSIVE Orders(_)
Orders(urls) ==
    IF urls = {} THEN {<<>>}
    ELSE UNION {{<<u>> \o rest : rest \in Orders(urls \ {u})} : u \in urls}

\* The loop goes on to the next request, or ends the drain.
SyncAfter(t, rest) ==
    IF rest = <<>>
      THEN [t EXCEPT !.pc = "done", !.pending = <<>>, !.result = "resolved"]
      ELSE [t EXCEPT !.pc = "fetch", !.pending = rest]

\* The loop without its inner try: a failed replay ends the drain in the
\* outer catch.
SyncReplayAborts(t) ==
    [t EXCEPT !.pc = "done", !.failed = @ \cup {Head(t.pending)},
              !.result = "resolved"]

\* The inner catch of the loop: the failure is logged and the loop goes on.
SyncReplayCatch(t) ==
    SyncAfter([t EXCEPT !.failed = @ \cup {Head(t.pending)}], Tail(t.pending))

\* The sync event with tag 'background-sync': caches.open('form-data-cache').
\* A rejection is caught by the outer catch.
SyncOpen ==
    /\ phase = "activated"
    /\ events < MaxEvents
    /\ sync.pc \in {"idle", "done"}
    /\ events' = events + 1
    /\ IF storage = "failing"
         THEN /\ sync' = [IdleSync EXCEPT !.pc = "done", !.result = "resolved"]
              /\ cacheNames' = cacheNames
         ELSE /\ sync' = [IdleSync EXCEPT !.pc = "keys", !.cache = FORM_CACHE,
                                          !.live = TRUE]
              /\ cacheNames' = Opened(cacheNames, FORM_CACHE)
    /\ UNCHANGED <<store, phase, inst, act, clr, fetchTask, bg,
                   skipWaitingCalled, claimed, info, upd, posted, storage, cls, sweep>>

\* cache.keys() settles: the requests the loop will replay.
SyncKeys ==
    /\ sync.pc = "keys"
    /\ \E order \in Orders({e[1] : e \in IF sync.live THEN store[FORM_CACHE]
                                                    ELSE sync.orphaned}) :
          sync' = SyncAfter([sync EXCEPT !.listed = order], order)
    /\ UNCHANGED <<cacheNames, store, phase, inst, act, clr, fetchTask, bg,
                   events, skipWaitingCalled, claimed, info, upd, posted,
                   storage, cls, sweep>>

\* await fetch(request) settles: a response of any status goes on to
\* cache.delete(request), a rejection to the inner catch.
SyncFetch ==
    /\ sync.pc = "fetch"
    /\ \E o \in NetOutcomes :
          sync' = IF o.kind = "response"
                    THEN IF Ok(o.resp)
                           THEN [sync EXCEPT !.pc = "delete",
                                    !.replayed = @ \cup {Head(sync.pending)}]
                           ELSE [sync EXCEPT !.pc = "delete",
                                    !.refused = @ \cup {Head(sync.pending)}]
                    ELSE SyncReplayCatch(sync)
    /\ UNCHANGED <<cacheNames, store, phase, inst, act, clr, fetchTask, bg,
                   events, skipWaitingCalled, claimed, info, upd, posted,
                   storage, cls, sweep>>

\* await cache.delete(request) settles: the entry is gone from the cache the
\* Cache object belongs to.
SyncDelete ==
    /\ sync.pc = "delete"
    /\ store' = IF sync.live
                  THEN [store EXCEPT ![FORM_CACHE] = Remove(@, Head(sync.pending))]
                  ELSE store
    /\ sync' = SyncAfter(sync, Tail(sync.pending))
    /\ UNCHANGED <<cacheNames, phase, inst, act, clr, fetchTask, bg, events,
                   skipWaitingCalled, claimed, info, upd, posted, storage, cls, sweep>>

\* The worker is active, with the partitions of its version, and the pages
\* have queued any of the deferred submissions.
InitSync ==
    /\ cacheNames = <<STATIC_CACHE, EXTERNAL_CACHE, FORM_CACHE>>
    /\ \E queued \in SUBSET SyncTasks :
          store = [EmptyStore EXCEPT ![FORM_CACHE] = queued]
    /\ phase = "activated"
    /\ inst = [IdleTask EXCEPT !.pc = "done"]
    /\ act = [IdleTask EXCEPT !.pc = "done"]
    /\ clr = IdleTask
    /\ fetchTask = [s \in Slots |-> IdleFetch]
    /\ bg = {}
    /\ events = 0
    /\ skipWaitingCalled = "install"
    /\ claimed = TRUE
    /\ sync = IdleSync
    /\ info = IdleInfo
    /\ upd = IdleUpdate
    /\ posted = <<>>
    /\ storage = "ok"
    /\ sweep = IdleSweep
    /\ cls = IdleCls

NextSync ==
    \/ SyncOpen
    \/ SyncKeys
    \/ SyncFetch
    \/ SyncDelete
    \/ Enqueue
    \/ ClearKeys
    \/ ClearDelete
    \/ ClearDone

SpecSync == InitSync /\ [][NextSync]_vars

\* ------------------------------------------------------------ specification

Next ==
    \/ InstallOpenStatic
    \/ InstallAddStatic
    \/ InstallAddExternal
    \/ ActivateKeys
    \/ ActivateDelete
    \/ ActivateClaim
    \/ \E s \in Slots : HandleFetch(s)
    \/ \E s \in Slots : CacheFirstMatch(s)
    \/ \E s \in Slots : CacheFirstFetch(s)
    \/ \E s \in Slots : NetworkFirstFetch(s)
    \/ \E s \in Slots : NetworkFirstMatch(s)
    \/ \E s \in Slots : StaleWhileRevalidateMatch(s)
    \/ \E s \in Slots : StaleWhileRevalidateFetch(s)
    \/ \E s \in Slots : ImageMatch(s)
    \/ \E s \in Slots : ImageFetch(s)
    \/ \E s \in Slots : NetworkOnlyFetch(s)
    \/ \E s \in Slots : ApiFetch(s)
    \/ \E s \in Slots : ApiMatch(s)
    \/ BgFetchSettle
    \/ BgPutSettle
    \/ ClearKeys
    \/ ClearDelete
    \/ ClearDone
    \/ Enqueue

Spec == Init /\ [][Next]_vars

\* ------------------------------------------------------ setupPeriodicTasks

\* The callback of setInterval runs: caches.open(DYNAMIC_CACHE).  A rejection
\* is caught.
SweepOpen ==
    /\ events < MaxEvents
    /\ sweep.pc \in {"idle", "done"}
    /\ events' = events + 1
    /\ IF storage = "failing"
         THEN /\ sweep' = [IdleSweep EXCEPT !.pc = "done", !.result = "caught"]
              /\ cacheNames' = cacheNames
         ELSE /\ sweep' = [IdleSweep EXCEPT !.pc = "keys",
                                            !.cache = DYNAMIC_CACHE,
                                            !.live = TRUE]
              /\ cacheNames' = Opened(cacheNames, DYNAMIC_CACHE)
    /\ UNCHANGED <<store, phase, inst, act, clr, fetchTask, bg,
                   skipWaitingCalled, claimed, sync, info, upd, posted, storage,
                   cls>>

\* The loop goes on to the next key, or the cleanup ends.
SweepAfter(t, rest) ==
    IF rest = <<>>
      THEN [t EXCEPT !.pc = "done", !.pending = <<>>, !.result = "resolved"]
      ELSE [t EXCEPT !.pc = "visit", !.pending = rest]

\* cache.keys() settles and oneDayAgo is computed: each listed entry was
\* stored before it or after it.
SweepKeys ==
    /\ sweep.pc = "keys"
    /\ LET keys == {e[1] : e \in IF sweep.live THEN store[DYNAMIC_CACHE]
                                               ELSE sweep.orphaned}
       IN  \E order \in Orders(keys) : \E fresh \in SUBSET keys :
              sweep' = SweepAfter([sweep EXCEPT !.listed = order,
                                                !.fresh = fresh], order)
    /\ UNCHANGED <<cacheNames, store, phase, inst, act, clr, fetchTask, bg,
                   events, skipWaitingCalled, claimed, sync, info, upd, posted,
                   storage, cls>>

\* if (Math.random() > 0.8): the test that decides the deletion of a key.
SweepEvicts(random) == random

\* One turn of the loop: Math.random() is drawn, and when it is above 0.8
\* cache.delete(request) is awaited.
SweepVisit ==
    /\ sweep.pc = "visit"
    /\ \E random \in BOOLEAN :
          LET request == Head(sweep.pending) IN
          IF SweepEvicts(random)
            THEN /\ store' = IF sweep.live
                               THEN [store EXCEPT ![DYNAMIC_CACHE] =
                                        Remove(@, request)]
                               ELSE store
                 /\ sweep' = SweepAfter([sweep EXCEPT !.removed =
                                            @ \cup {request}],
                                        Tail(sweep.pending))
            ELSE /\ store' = store
                 /\ sweep' = SweepAfter(sweep, Tail(sweep.pending))
    /\ UNCHANGED <<cacheNames, phase, inst, act, clr, fetchTask, bg, events,
                   skipWaitingCalled, claimed, sync, info, upd, posted, storage,
                   cls>>

\* What CacheStorage holds when the timer fires on an active worker: what
\* the install stored and what requests have added since.
SweepStores ==
    { [names |-> <<STATIC_CACHE, EXTERNAL_CACHE>>, store |-> Installed],
      [names |-> <<STATIC_CACHE, EXTERNAL_CACHE, DYNAMIC_CACHE, IMAGE_CACHE>>,
       store |-> [Installed EXCEPT
                    ![DYNAMIC_CACHE] = {<<PageDoc.url, Stale>>,
                                        <<FontsCss.url, Stale>>},
                    ![IMAGE_CACHE] = {<<PhotoJpg.url, Stale>>}]] }

InitSweep ==
    /\ \E l \in SweepStores : cacheNames = l.names /\ store = l.store
    /\ phase = "activated"
    /\ inst = [IdleTask EXCEPT !.pc = "done"]
    /\ act = [IdleTask EXCEPT !.pc = "done"]
    /\ clr = IdleTask
    /\ fetchTask = [s \in Slots |-> IdleFetch]
    /\ bg = {}
    /\ events = 0
    /\ skipWaitingCalled = "install"
    /\ claimed = TRUE
    /\ sync = IdleSync
    /\ info = IdleInfo
    /\ upd = IdleUpdate
    /\ posted = <<>>
    /\ storage = "ok"
    /\ cls = IdleCls
    /\ sweep = IdleSweep

\* The hourly cleanup of an active worker, and the CLEAR_CACHE and
\* UPDATE_CACHE commands that can reach it meanwhile.
NextSweep ==
    \/ SweepOpen
    \/ SweepKeys
    \/ SweepVisit
    \/ ClearKeys
    \/ ClearDelete
    \/ ClearDone
    \/ UpdateOpen
    \/ UpdateAddAll

SpecSweep == InitSweep /\ [][NextSweep]_vars

\* --------------------------------------------------- handleMessage, lifecycle

\* The message SKIP_WAITING: handleMessage calls self.skipWaiting().
SkipWaitingMessage ==
    /\ phase # "parsed"
    /\ events < MaxEvents
    /\ events' = events + 1
    /\ skipWaitingCalled' = "message"
    /\ UNCHANGED <<cacheNames, store, phase, inst, act, clr, fetchTask, bg,
                   claimed, sync, info, upd, posted, storage, cls, sweep>>

\* The lifecycle of the worker and the messages that reach it while it is
\* installing, waiting or active.
NextLifecycle ==
    \/ InstallOpenStatic
    \/ InstallAddStatic
    \/ InstallAddExternal
    \/ ActivateKeys
    \/ ActivateDelete
    \/ ActivateClaim
    \/ SkipWaitingMessage
    \/ ClearKeys
    \/ ClearDelete
    \/ ClearDone

SpecLifecycle == Init /\ [][NextLifecycle]_vars

\* ------------------------------------------------------- failing storage

\* CacheStorage starts rejecting caches.open and cache.put (the quota is
\* exhausted, the storage is unavailable).
StorageFails ==
    /\ storage = "ok"
    /\ storage' = "failing"
    /\ UNCHANGED <<cacheNames, store, phase, inst, act, clr, fetchTask, bg,
                   events, skipWaitingCalled, claimed, sync, info, upd, posted,
                   cls, sweep>>

\* CacheStorage accepts caches.open and cache.put again.
StorageRecovers ==
    /\ storage = "failing"
    /\ storage' = "ok"
    /\ UNCHANGED <<cacheNames, store, phase, inst, act, clr, fetchTask, bg,
                   events, skipWaitingCalled, claimed, sync, info, upd, posted,
                   cls, sweep>>

\* The fetch events of an active worker whose storage can fail at any time.
NextFaulty ==
    \/ \E s \in Slots : HandleFetch(s)
    \/ \E s \in Slots : CacheFirstMatch(s)
    \/ \E s \in Slots : CacheFirstFetch(s)
    \/ \E s \in Slots : NetworkFirstFetch(s)
    \/ \E s \in Slots : NetworkFirstMatch(s)
    \/ \E s \in Slots : StaleWhileRevalidateMatch(s)
    \/ \E s \in Slots : StaleWhileRevalidateFetch(s)
    \/ \E s \in Slots : ImageMatch(s)
    \/ \E s \in Slots : ImageFetch(s)
    \/ \E s \in Slots : NetworkOnlyFetch(s)
    \/ \E s \in Slots : ApiFetch(s)
    \/ \E s \in Slots : ApiMatch(s)
    \/ BgFetchSettle
    \/ BgPutSettle
    \/ StorageFails
    \/ StorageRecovers

SpecFaulty == InitCommands /\ [][NextFaulty]_vars

\* ------------------------------------------------------------- classifying

\* Requests for the classifier: every combination of a method, a host, an
\* '/api/' path segment, a file extension and a destination.
ClassifyHosts ==
    { <<Origin>>, <<"https://", "fonts.gstatic.com">>,
      <<"https://", "unsplash.com">> }

\* What follows the file name: nothing, an extension, '.json' (which has
\* '.js' in it), or a trailing '/'.
ClassifyExtensions ==
    { <<>>, <<".jpg">>, <<".css">>, <<".js">>, <<".woff", "2">>, <<".html">>,
      <<".js", "on">>, <<"/">> }

ClassifyRequests ==
    { Req(m, h \o a \o <<"/", "file">> \o e, d) :
        m \in {"GET", "POST"}, h \in ClassifyHosts,
        a \in {<<>>, <<"/", "api">>}, e \in ClassifyExtensions,
        d \in {"", "image", "style", "document"} }

InitClassify ==
    /\ cacheNames = <<>>
    /\ store = EmptyStore
    /\ phase = "activated"
    /\ inst = IdleTask
    /\ act = IdleTask
    /\ clr = IdleTask
    /\ fetchTask = [s \in Slots |-> IdleFetch]
    /\ bg = {}
    /\ events = 0
    /\ skipWaitingCalled = "no"
    /\ claimed = TRUE
    /\ sync = IdleSync
    /\ info = IdleInfo
    /\ upd = IdleUpdate
    /\ posted = <<>>
    /\ storage = "ok"
    /\ sweep = IdleSweep
    /\ \E r \in ClassifyRequests : cls = [req |-> r, handler |-> "none"]

\* handleFetch chooses the handler of the request.
Classify ==
    /\ cls.handler = "none"
    /\ cls' = [cls EXCEPT !.handler = Strategy(cls.req)]
    /\ UNCHANGED <<cacheNames, store, phase, inst, act, clr, fetchTask, bg,
                   events, skipWaitingCalled, claimed, sync, info, upd, posted,
                   storage, sweep>>

NextClassify == Classify

SpecClassify == InitClassify /\ [][NextClassify]_vars

\* ------------------------------------------------------------------ claims

\* The task of slot s returned from the handler of strategy.
Returned(s, strategy) ==
    /\ fetchTask[s].pc = "done"
    /\ fetchTask[s].strategy = strategy

\* The task of slot s found no cached entry and its network call was rejected.
MissedAndOffline(s) ==
    /\ fetchTask[s].pc = "done"
    /\ ~fetchTask[s].hit
    /\ fetchTask[s].net = "rejected"

\* C1: a document GET request that no partition holds an entry for and whose
\* network call fails is answered with a defined response (the offline
\* HTML page), never with undefined and never with a thrown error, also when
\* '/offline.html' was never stored.
C1_DocumentGetsOfflineHtml ==
    \A s \in Slots :
        ( /\ MissedAndOffline(s)
          /\ fetchTask[s].req.method = "GET"
          /\ fetchTask[s].req.destination = "document" )
        => fetchTask[s].result.kind = "response"

\* C2: an image GET request that the image partition has no entry for and
\* whose network call fails resolves to a placeholder image or a 404
\* response, never to undefined and never to a thrown error, also when
\* '/placeholder-image.png' is in no partition.
C2_ImageGetsPlaceholderOr404 ==
    \A s \in Slots :
        ( /\ MissedAndOffline(s)
          /\ Returned(s, "handleImageRequest") )
        => fetchTask[s].result.kind = "response"

\* The step of slot s that leaves the await at pc.
Leaves(s, pc) == fetchTask[s].pc = pc /\ fetchTask'[s].pc # pc

C4_CacheFirstHitSkipsNetwork ==
    [][\A s \in Slots :
          ( /\ Leaves(s, "cacheFirst.match")
            /\ MatchAllHit(fetchTask[s].req.url) )
          => /\ fetchTask'[s].pc = "done"
             /\ fetchTask'[s].result.kind = "response"
             /\ \E n \in Range(cacheNames) :
                   <<fetchTask[s].req.url, fetchTask'[s].result.resp>> \in store[n]
             /\ fetchTask'[s].netCalls = 0
             /\ fetchTask'[s].net = "none"
             /\ UNCHANGED <<cacheNames, store, bg>>]_vars

\* A cacheFirst request was answered from the cache.
C4_Witness ==
    \E s \in Slots :
        /\ Returned(s, "cacheFirst")
        /\ fetchTask[s].hit
        /\ fetchTask[s].netCalls = 0
        /\ fetchTask[s].result.kind = "response"

\* The step in which the un-awaited cache.put p settles.
SettledPut(p) ==
    /\ p \in bg
    /\ p.kind = "put"
    /\ bg' = bg \ {p}
    /\ cacheNames' = cacheNames

\* The step in which the background fetch p settles.
SettledFetch(p) ==
    /\ p \in bg
    /\ p.kind = "fetch"
    /\ p \notin bg'
    /\ (bg \ {p}) \subseteq bg'
    /\ cacheNames' = cacheNames

\* C5: with a stale entry in the dynamic partition, staleWhileRevalidate
\* returns that entry while its network call is still in flight; the detached
\* fetch, once it succeeded, is put through the Cache object of the dynamic
\* partition, and when that put settles (the partition not having been
\* deleted since it was opened) the partition's entry for the key is the
\* network's response.  No step of the refresh needs the task that started it.
C5_StaleWhileRevalidateRefreshes ==
    [][/\ \A s \in Slots :
            ( /\ Leaves(s, "staleWhileRevalidate.match")
              /\ Has(store[DYNAMIC_CACHE], fetchTask[s].req.url) )
            => /\ fetchTask'[s].pc = "done"
               /\ fetchTask'[s].result =
                     Resolved(Get(store[DYNAMIC_CACHE], fetchTask[s].req.url))
               /\ fetchTask'[s].net = "pending"
               /\ BgFetch("staleWhileRevalidate", DYNAMIC_CACHE, TRUE,
                          fetchTask[s].req.url) \in bg'
       /\ \A p \in bg :
            (SettledFetch(p) /\ p.origin = "staleWhileRevalidate")
            => /\ fetchTask' = fetchTask
               /\ \A q \in bg' \ bg :
                     /\ Ok(q.resp)
                     /\ q = BgPut(p.origin, DYNAMIC_CACHE, p.live, p.url, q.resp)
       /\ \A p \in bg :
            (SettledPut(p) /\ p.origin = "staleWhileRevalidate" /\ p.live)
            => /\ fetchTask' = fetchTask
               /\ <<p.url, p.resp>> \in store'[DYNAMIC_CACHE]]_vars

\* The stale entry was returned before the network answered, and the
\* dynamic partition now holds the fresh response, stored after the return.
C5_Witness ==
    \E s \in Slots :
        /\ Returned(s, "staleWhileRevalidate")
        /\ fetchTask[s].req = FontsCss
        /\ fetchTask[s].result = Resolved(Stale)
        /\ fetchTask[s].net = "pending"
        /\ <<FontsCss.url, Response(200, "X")>> \in store[DYNAMIC_CACHE]
        /\ bg = {}

\* C6: networkFirst calls the network before it reads a cache; when the call
\* is rejected it returns the cached entry if there is one, and otherwise
\* the fallback-exhausted outcome, the offline fallback response.
C6_NetworkFirstDegrades ==
    \A s \in Slots :
        LET t == fetchTask[s] IN
        /\ t.pc = "networkFirst.match" => t.net = "rejected" /\ t.netCalls = 1
        /\ Returned(s, "networkFirst") =>
              /\ t.netCalls = 1
              /\ t.hit => t.net = "rejected"
              /\ t.net = "rejected" => t.result.kind = "response"

\* C7: a cacheFirst request that missed and got a success response returns
\* it and puts it into the static partition; when the put settles (the
\* partition not having been deleted since it was opened) the static
\* partition holds it; and a later request for a key whose entry is X is
\* answered X with no network call, so whether the network fails or not.
C7_StaticAssetServedFromCacheAfterFetch ==
    [][/\ \A s \in Slots :
            ( /\ Leaves(s, "cacheFirst.fetch")
              /\ fetchTask'[s].net = "ok" )
            => /\ fetchTask'[s].pc = "done"
               /\ fetchTask'[s].result.kind = "response"
               /\ Ok(fetchTask'[s].result.resp)
               /\ STATIC_CACHE \in Range(cacheNames')
               /\ BgPut("cacheFirst", STATIC_CACHE, TRUE, fetchTask[s].req.url,
                        fetchTask'[s].result.resp) \in bg'
       /\ \A p \in bg :
            (SettledPut(p) /\ p.origin = "cacheFirst" /\ p.live)
            => <<p.url, p.resp>> \in store'[STATIC_CACHE]
       /\ \A s \in Slots : \A e \in store[STATIC_CACHE] :
            ( /\ Leaves(s, "cacheFirst.match")
              /\ e[1] = fetchTask[s].req.url
              /\ \A n \in Range(cacheNames) : \A f \in store[n] :
                    f[1] = e[1] => f[2] = e[2] )
            => /\ fetchTask'[s].result = Resolved(e[2])
               /\ fetchTask'[s].netCalls = 0]_vars

\* A stylesheet that only a cacheFirst put can have stored (install stores
\* all critical assets or none) was served from the static partition.
C7_Witness ==
    \E s \in Slots :
        /\ Returned(s, "cacheFirst")
        /\ fetchTask[s].req = StylesCss
        /\ isStaticAsset(fetchTask[s].req)
        /\ fetchTask[s].hit
        /\ fetchTask[s].netCalls = 0
        /\ fetchTask[s].result = Resolved(Response(200, "X"))
        /\ store[STATIC_CACHE] = {<<StylesCss.url, Response(200, "X")>>}

\* C8: with a stale entry in the image partition, handleImageRequest returns
\* it while the fetch it started is still in flight; that fetch, once it
\* succeeded, is put through the Cache object of the image partition, and
\* when the put settles (the partition not having been deleted since it was
\* opened) the partition's entry for the key is the network's response.
C8_ImageRefreshedInBackground ==
    [][/\ \A s \in Slots :
            ( /\ Leaves(s, "handleImageRequest.match")
              /\ Has(store[IMAGE_CACHE], fetchTask[s].req.url) )
            => /\ fetchTask'[s].pc = "done"
               /\ fetchTask'[s].result =
                     Resolved(Get(store[IMAGE_CACHE], fetchTask[s].req.url))
               /\ fetchTask'[s].net = "pending"
               /\ BgFetch("handleImageRequest", IMAGE_CACHE, TRUE,
                          fetchTask[s].req.url) \in bg'
       /\ \A p \in bg :
            (SettledFetch(p) /\ p.origin = "handleImageRequest")
            => \A q \in bg' \ bg :
                  /\ Ok(q.resp)
                  /\ q = BgPut(p.origin, IMAGE_CACHE, p.live, p.url, q.resp)
       /\ \A p \in bg :
            (SettledPut(p) /\ p.origin = "handleImageRequest" /\ p.live)
            => <<p.url, p.resp>> \in store'[IMAGE_CACHE]]_vars

\* The stale photo was returned before the network answered, and the image
\* partition now holds the new one.
C8_Witness ==
    \E s \in Slots :
        /\ Returned(s, "handleImageRequest")
        /\ fetchTask[s].req = PhotoJpg
        /\ fetchTask[s].result = Resolved(Stale)
        /\ fetchTask[s].net = "pending"
        /\ <<PhotoJpg.url, Response(200, "X")>> \in store[IMAGE_CACHE]
        /\ bg = {}

\* C9: no step of handleActivate deletes or changes a partition named with
\* the current version tag, and when handleActivate completes no partition
\* with another version tag exists.
C9_ActivationDeletesOnlyStale ==
    [][act' # act =>
          /\ \A n \in Range(cacheNames) :
                VersionTag(n) = CurrentVersion
                => n \in Range(cacheNames') /\ store'[n] = store[n]
          /\ act'.pc = "done" =>
                \A n \in Range(cacheNames') :
                    VersionTag(n) \in {CurrentVersion, ""}]_vars

\* Activation found partitions of both versions, deleted the old ones and
\* kept the current ones with their entries.
C9_Witness ==
    /\ act.pc = "done"
    /\ {OLD_STATIC, OLD_DYNAMIC, STATIC_CACHE} \subseteq Range(act.listed)
    /\ ~Exists(OLD_STATIC)
    /\ ~Exists(OLD_DYNAMIC)
    /\ Exists(STATIC_CACHE)
    /\ store[STATIC_CACHE] # {}

\* C10: no step of handleActivate removes a SyncTask from 'form-data-cache':
\* what was queued before activation is queued after it.
C10_SyncQueueSurvivesActivation ==
    [][act' # act =>
          \A task \in store[FORM_CACHE] : task \in store'[FORM_CACHE]]_vars

\* The step in which slot s takes a new fetch event.
Dispatched(s) ==
    /\ fetchTask[s].pc \in {"idle", "done"}
    /\ fetchTask'[s].pc \notin {"idle", "done"}

\* The step in which the handler of slot s goes on from an await.
Advances(s) ==
    /\ fetchTask[s].pc \notin {"idle", "done"}
    /\ fetchTask'[s].pc # fetchTask[s].pc

\* C12: a non-GET request, whatever its URL and destination, is passed to
\* fetch(request) when it is dispatched, and the one step that follows ends
\* the handling: one network call was made, no cache was looked up, no
\* partition and no detached promise was created or changed, and the result is
\* the network's response (success or not) or its rejection.
C12_NonGetBypassesEngine ==
    [][\A s \in Slots :
          /\ (Dispatched(s) /\ fetchTask'[s].req.method # "GET")
             => /\ fetchTask'[s].pc = "networkOnly.fetch"
                /\ fetchTask'[s].netCalls = 1
                /\ fetchTask'[s].net = "pending"
                /\ UNCHANGED <<cacheNames, store, bg>>
          /\ (Advances(s) /\ fetchTask[s].req.method # "GET")
             => /\ fetchTask'[s].pc = "done"
                /\ fetchTask'[s].netCalls = 1
                /\ ~fetchTask'[s].hit
                /\ UNCHANGED <<cacheNames, store, bg>>
                /\ \/ /\ fetchTask'[s].net = "rejected"
                      /\ fetchTask'[s].result = Rejected
                   \/ /\ fetchTask'[s].net \in {"ok", "notOk"}
                      /\ fetchTask'[s].result.kind = "response"
                      /\ fetchTask'[s].result.resp \in NetResponses
                      /\ Ok(fetchTask'[s].result.resp)
                            <=> fetchTask'[s].net = "ok"]_vars

\* A POST to a URL the image partition holds a (stale) entry for was answered
\* by the network.
C12_Witness ==
    \E s \in Slots :
        /\ Returned(s, "networkOnly")
        /\ fetchTask[s].req = PostPhoto
        /\ Has(store[IMAGE_CACHE], PostPhoto.url)
        /\ fetchTask[s].result = Resolved(Response(200, "X"))

\* C14: handling an api-class GET request creates and changes no partition
\* and starts no cache.put, whatever the network answers; a response of the
\* network is returned as it is; when the network call is rejected the
\* result is an entry some partition holds for the request, and with no such
\* entry the rejection goes to the caller.
C14_ApiNeverPersisted ==
    [][\A s \in Slots :
          /\ (Dispatched(s) /\ fetchTask'[s].strategy = "handleApiRequest")
             => /\ fetchTask'[s].pc = "handleApiRequest.fetch"
                /\ fetchTask'[s].netCalls = 1
                /\ UNCHANGED <<cacheNames, store, bg>>
          /\ (Advances(s) /\ fetchTask[s].strategy = "handleApiRequest")
             => /\ UNCHANGED <<cacheNames, store, bg>>
                /\ fetchTask'[s].netCalls = 1
                /\ fetchTask[s].pc = "handleApiRequest.fetch"
                   => IF fetchTask'[s].net = "rejected"
                        THEN fetchTask'[s].pc = "handleApiRequest.match"
                        ELSE /\ fetchTask'[s].pc = "done"
                             /\ fetchTask'[s].result.kind = "response"
                             /\ fetchTask'[s].result.resp \in NetResponses
                /\ fetchTask[s].pc = "handleApiRequest.match"
                   => /\ fetchTask'[s].pc = "done"
                      /\ IF MatchAllHit(fetchTask[s].req.url)
                           THEN /\ fetchTask'[s].result.kind = "response"
                                /\ \E n \in Range(cacheNames) :
                                      <<fetchTask[s].req.url,
                                        fetchTask'[s].result.resp>> \in store[n]
                           ELSE fetchTask'[s].result = Rejected]_vars

\* An api request lost the network and was answered with the entry the
\* dynamic partition held for it; nothing was written.
C14_Witness ==
    \E s \in Slots :
        /\ Returned(s, "handleApiRequest")
        /\ fetchTask[s].req = ApiGet
        /\ fetchTask[s].net = "rejected"
        /\ fetchTask[s].hit
        /\ fetchTask[s].result = Resolved(Stale)
        /\ store[DYNAMIC_CACHE] =
              {<<PageDoc.url, Stale>>, <<FontsCss.url, Stale>>, <<ApiGet.url, Stale>>}

\* The rules in the order the claim gives, each with its test and the
\* handler of its class.
ClassRules ==
    << [class |-> "image", handler |-> "handleImageRequest"],
       [class |-> "api", handler |-> "handleApiRequest"],
       [class |-> "static-asset", handler |-> "cacheFirst"],
       [class |-> "external-resource", handler |-> "staleWhileRevalidate"],
       [class |-> "document", handler |-> "networkFirst"],
       [class |-> "other", handler |-> "cacheFirst"] >>

Satisfies(request, class) ==
    CASE class = "image" -> isImageRequest(request)
      [] class = "api" -> isApiRequest(request)
      [] class = "static-asset" -> isStaticAsset(request)
      [] class = "external-resource" -> isExternalResource(request)
      [] class = "document" -> request.destination = "document"
      [] class = "other" -> TRUE

\* C13: a GET request is handled by the handler of the first rule, in the
\* order image, api, static-asset, external-resource, document, other, that
\* it satisfies, however many later rules it satisfies too.
C13_FirstMatchWins ==
    (cls.handler # "none" /\ cls.req.method = "GET")
    => \E i \in 1..Len(ClassRules) :
          /\ Satisfies(cls.req, ClassRules[i].class)
          /\ \A j \in 1..(i - 1) : ~Satisfies(cls.req, ClassRules[j].class)
          /\ cls.handler = ClassRules[i].handler

\* A request that is api, static-asset and external-resource at once went to
\* the api handler.
C13_Witness ==
    /\ cls.req.method = "GET"
    /\ ~isImageRequest(cls.req)
    /\ isApiRequest(cls.req)
    /\ isStaticAsset(cls.req)
    /\ isExternalResource(cls.req)
    /\ cls.req.destination = "document"
    /\ cls.handler = "handleApiRequest"

\* A step of handleBackgroundSync itself.
DrainStep == sync'.pc # sync.pc \/ sync'.pending # sync.pending

\* C11: a replay fails when fetch(request) rejects and succeeds when it
\* resolves with a success status (a replay answered with another status is
\* C22's).  The cache.delete that follows a successful replay leaves no entry
\* for the key in 'form-data-cache', as long as that partition was not deleted
\* since the drain opened it; a failed replay changes no partition and the
\* loop goes on with the request listed next; no step of the drain removes a
\* task whose replay failed or has not been made; and the drain ends
\* resolved, never rejected, with every listed request replayed.
C11_DrainPartialFailure ==
    [][DrainStep =>
          /\ sync.pc = "fetch" =>
                LET request == Head(sync.pending) IN
                /\ store' = store
                /\ request \in sync'.replayed \cup sync'.refused \cup sync'.failed
                /\ request \in sync'.replayed \cup sync'.refused
                   => sync'.pc = "delete" /\ sync'.pending = sync.pending
                /\ request \in sync'.failed
                   => /\ sync'.pending = Tail(sync.pending)
                      /\ sync'.pc = IF Tail(sync.pending) = <<>>
                                      THEN "done" ELSE "fetch"
          /\ (sync.pc = "delete" /\ sync.live) =>
                ~Has(store'[FORM_CACHE], Head(sync.pending))
          /\ \A task \in store[FORM_CACHE] :
                task[1] \notin sync.replayed \cup sync.refused
                => task \in store'[FORM_CACHE]
          /\ sync'.result # "rejected"
          /\ sync'.pc = "done" =>
                /\ sync'.result = "resolved"
                /\ sync'.replayed \cup sync'.refused \cup sync'.failed
                      = Range(sync'.listed)
                /\ sync'.failed \cap (sync'.replayed \cup sync'.refused) = {}]_vars

\* Three tasks were queued, the replay of the second failed: the first and
\* the third are gone from the queue and the second is still there.
C11_Witness ==
    /\ sync.pc = "done"
    /\ sync.live
    /\ Len(sync.listed) = 3
    /\ sync.failed = {sync.listed[2]}
    /\ sync.replayed = {sync.listed[1], sync.listed[3]}
    /\ {task[1] : task \in store[FORM_CACHE]} = {sync.listed[2]}

\* The lookup of slot s is about to settle with an entry for the request.
LookupHits(s) ==
    LET t == fetchTask[s] IN
    \/ t.pc = "cacheFirst.match" /\ MatchAllHit(t.req.url)
    \/ t.pc = "staleWhileRevalidate.match"
          /\ Has(store[DYNAMIC_CACHE], t.req.url)
    \/ t.pc = "handleImageRequest.match" /\ Has(store[IMAGE_CACHE], t.req.url)

\* C15: in cacheFirst, staleWhileRevalidate and handleImageRequest, when the
\* cache lookup is about to hit, the step that delivers the entry can be taken
\* whatever network calls are in flight, and that step ends the handling
\* with the entry as the result while the network call made for the request,
\* if any, has not settled: nothing the handler awaits is a network call.
C15_HungNetworkNeverBlocksHit ==
    /\ [](\A s \in Slots :
            LookupHits(s)
            => ENABLED (CacheFirstMatch(s) \/ StaleWhileRevalidateMatch(s)
                          \/ ImageMatch(s)))
    /\ [][\A s \in Slots :
            (LookupHits(s) /\ Advances(s))
            => /\ fetchTask'[s].pc = "done"
               /\ fetchTask'[s].hit
               /\ fetchTask'[s].result.kind = "response"
               /\ \E n \in Range(cacheNames) :
                     <<fetchTask[s].req.url, fetchTask'[s].result.resp>>
                        \in store[n]
               /\ fetchTask'[s].net \in {"none", "pending"}]_vars

\* The cached photo was delivered while the refresh of an earlier request
\* and its own were both still in flight.
C15_Witness ==
    \E s \in Slots :
        /\ Returned(s, "handleImageRequest")
        /\ fetchTask[s].hit
        /\ fetchTask[s].result = Resolved(Stale)
        /\ fetchTask[s].net = "pending"
        /\ {p.origin : p \in {q \in bg : q.kind = "fetch"}} =
              {"staleWhileRevalidate", "handleImageRequest"}

\* C16: sendCacheInfo visits every partition that exists when the command
\* arrives; for each it records the number of keys the partition has when it
\* is visited; it posts one message, of type 'CACHE_INFO', when the last is
\* visited, with one count for each name listed and no other name; and
\* nothing else posts a message.  So when GET_CACHE_INFO is the only command
\* the worker has been sent, the one message posted maps exactly the existing
\* partitions to their numbers of keys.
C16_CacheInfoReportsEveryPartition ==
    /\ []((events = 1 /\ info.pc = "done")
            => posted = << CacheInfoMessage(
                              {<<n, Cardinality(store[n])>> :
                                  n \in Range(cacheNames)}) >>)
    /\ [][(info' # info \/ posted' # posted) =>
                /\ info.pc \in {"idle", "done"} =>
                      /\ info'.listed = cacheNames
                      /\ info'.data = {}
                      /\ info'.pc = "done" <=> cacheNames = <<>>
                /\ info.pc = "count" =>
                      LET n == Head(info.pending) IN
                      /\ <<n, Cardinality(store[n])>> \in info'.data
                      /\ \A e \in info.data : e[1] # n => e \in info'.data
                      /\ info'.pc = "done" <=> Tail(info.pending) = <<>>
                /\ info'.pc = "done" =>
                      /\ posted' = Append(posted, CacheInfoMessage(info'.data))
                      /\ {e[1] : e \in info'.data} = Range(info'.listed)
                      /\ \A e, f \in info'.data : e[1] = f[1] => e = f
                /\ info'.pc # "done" => posted' = posted]_vars

\* The five partitions of a worker in use were reported, 13 critical assets,
\* 3 external ones, a page, a photo and 3 queued submissions.
C16_Witness ==
    /\ info.pc = "done"
    /\ posted = << CacheInfoMessage(
                      { <<STATIC_CACHE, 13>>, <<EXTERNAL_CACHE, 3>>,
                        <<DYNAMIC_CACHE, 1>>, <<IMAGE_CACHE, 1>>,
                        <<FORM_CACHE, 3>> }) >>
    /\ Len(cacheNames) = 5

\* C17 as claimed: at the moment clearAllCaches finishes no partition
\* exists, also when other tasks were in flight while it ran.
C17_ClearLeavesNoPartition ==
    [][(clr.pc = "delete" /\ clr'.pc = "done") => cacheNames' = <<>>]_vars

\* C17 as amended: clearAllCaches lists every partition that exists when the
\* command arrives and deletes each of them, with all its entries, whatever
\* its name, finishing only when the last is deleted; when CLEAR_CACHE is the
\* only command the worker has been sent, no partition exists when it
\* finishes.  (A partition a task in flight opens after the listing, or again
\* after its deletion, can exist at that moment.)
C17_ClearDeletesEveryListedPartition ==
    /\ []((events = 1 /\ clr.pc = "done") => cacheNames = <<>>)
    /\ [][clr' # clr =>
            /\ clr.pc \in {"idle", "done"} =>
                  /\ clr'.pc = "delete"
                  /\ clr'.listed = cacheNames
                  /\ clr'.pending = cacheNames
            /\ (clr.pc = "delete" /\ clr.pending # <<>>) =>
                  /\ Head(clr.pending) \notin Range(cacheNames')
                  /\ store'[Head(clr.pending)] = {}
                  /\ clr'.pc = "delete"
                  /\ clr'.pending = Tail(clr.pending)
            /\ clr'.pc = "done" => clr.pending = <<>>]_vars

\* clearAllCaches has deleted the five partitions it had listed and is about
\* to finish, while the dynamic partition, opened again by UPDATE_CACHE
\* meanwhile, exists.
C17_Witness ==
    /\ clr.pc = "delete"
    /\ clr.pending = <<>>
    /\ Len(clr.listed) = 5
    /\ upd.pc # "idle"
    /\ cacheNames = <<DYNAMIC_CACHE>>

\* C18: no step of updateCache creates, deletes or changes a partition other
\* than the dynamic one, or starts a detached write; when cache.addAll
\* succeeds, the dynamic partition holds a success response for every URL
\* given, as long as it was not deleted since updateCache opened it; when a
\* fetch fails, nothing is stored and updateCache ends with the error caught.
C18_UpdateCacheStoresInDynamic ==
    /\ []((events = 1 /\ upd.pc = "done" /\ upd.result = "stored")
            => \A i \in 1..Len(upd.urls) :
                  Has(store[DYNAMIC_CACHE], upd.urls[i]))
    /\ [][upd'.pc # upd.pc =>
            /\ \A n \in AllCacheNames \ {DYNAMIC_CACHE} :
                  /\ store'[n] = store[n]
                  /\ n \in Range(cacheNames') <=> n \in Range(cacheNames)
            /\ bg' = bg
            /\ upd'.result \in {"none", "stored", "caught"}
            /\ upd.pc \in {"idle", "done"} =>
                  /\ store' = store
                  /\ DYNAMIC_CACHE \in Range(cacheNames')
            /\ upd.pc = "addAll" =>
                  /\ upd'.pc = "done"
                  /\ upd'.result \in {"stored", "caught"}
                  /\ upd'.result = "caught" => store' = store
                  /\ (upd'.result = "stored" /\ upd.live) =>
                        \A i \in 1..Len(upd.urls) :
                            /\ Has(store'[DYNAMIC_CACHE], upd.urls[i])
                            /\ Ok(Get(store'[DYNAMIC_CACHE], upd.urls[i]))]_vars

\* UPDATE_CACHE with two URLs created the dynamic partition of a freshly
\* installed worker and stored both.
C18_Witness ==
    /\ upd.pc = "done"
    /\ upd.result = "stored"
    /\ Len(upd.urls) = 2
    /\ cacheNames = <<STATIC_CACHE, EXTERNAL_CACHE, DYNAMIC_CACHE>>
    /\ store[DYNAMIC_CACHE] =
          {<<PageDoc.url, Response(200, "X")>>, <<ApiGet.url, Response(200, "X")>>}
    /\ store[STATIC_CACHE] = Installed[STATIC_CACHE]

\* C19: every step of handleInstall either goes on to the next await or ends
\* it with the worker installed, whether cache.addAll of the critical or of
\* the external assets succeeded or failed; the worker is never discarded,
\* and once handleInstall has ended the activate event is possible until it
\* is taken.
C19_InstallNeverRejects ==
    /\ [](phase # "redundant")
    /\ []((inst.pc = "done" /\ act.pc = "idle") =>
            (phase = "installed" /\ ENABLED ActivateKeys))
    /\ [][inst'.pc # inst.pc =>
            /\ inst'.pc \in {"addStatic", "addExternal", "done"}
            /\ inst'.pc = "done" <=> phase' = "installed"
            /\ inst'.pc # "done" => phase' = "installing"]_vars

\* cache.addAll(STATIC_ASSETS) failed on a fresh origin (the static partition
\* is empty, external-cache was never opened, skipWaiting was not called) and
\* the worker was activated all the same.
C19_Witness ==
    /\ inst.pc = "done"
    /\ phase = "activated"
    /\ skipWaitingCalled = "no"
    /\ cacheNames = <<STATIC_CACHE>>
    /\ store[STATIC_CACHE] = {}

\* A success response of the network.
NetworkSuccess ==
    {Resolved(o.resp) : o \in {n \in NetOutcomes : n.kind = "response" /\ Ok(n.resp)}}

\* The handlers that store what the network answers.
CachingHandlers ==
    {"cacheFirst", "networkFirst", "staleWhileRevalidate", "handleImageRequest"}

\* C20: when the network call a caching handler awaits resolves with a
\* success response, the handler returns at that step and its caller gets a
\* success response of the network, whether CacheStorage accepts
\* caches.open and cache.put or rejects them.
C20_CachingFailureNeverFailsRequest ==
    [][\A s \in Slots :
          (/\ fetchTask[s].strategy \in CachingHandlers
           /\ fetchTask[s].net = "pending"
           /\ fetchTask[s].pc # "done"
           /\ fetchTask'[s].net = "ok")
          => (/\ fetchTask'[s].pc = "done"
              /\ fetchTask'[s].result \in NetworkSuccess)]_vars

\* C21: when fetch(request) of networkFirst resolves with a non-success
\* status while an entry for the request is cached, networkFirst goes on as
\* after a rejected fetch and its caller gets the cached entry, not the
\* non-success response.
C21_NetworkFirstFallsBackOnErrorStatus ==
    [][\A s \in Slots :
          ( /\ Leaves(s, "networkFirst.fetch")
            /\ fetchTask'[s].net = "notOk"
            /\ MatchAllHit(fetchTask[s].req.url) )
          => \/ fetchTask'[s].pc = "networkFirst.match"
             \/ /\ fetchTask'[s].pc = "done"
                /\ fetchTask'[s].result =
                      Resolved(MatchAll(fetchTask[s].req.url))]_vars

\* C22: a step of the drain removes a task from 'form-data-cache' only when
\* the replay of that task resolved with a success status; a task whose
\* replay was rejected or answered with another status stays queued.
C22_DrainRemovesOnlyDelivered ==
    [][DrainStep =>
          \A task \in store[FORM_CACHE] :
              task \notin store'[FORM_CACHE] => task[1] \in sync.replayed]_vars

\* C23: a staleWhileRevalidate request that the dynamic partition has no
\* entry for and whose network call is rejected settles to a response (the
\* fallback) or to the network error, never to undefined.
C23_StaleWhileRevalidateNeverUndefined ==
    \A s \in Slots :
        (MissedAndOffline(s) /\ Returned(s, "staleWhileRevalidate"))
        => fetchTask[s].result.kind \in {"response", "error"}

\* C25: a cache hit of cacheFirst is an entry of the static partition: the
\* handler returns a cached entry only if the static partition stores it.
C25_CacheFirstReadsStaticOnly ==
    [][\A s \in Slots :
          ( /\ Leaves(s, "cacheFirst.match")
            /\ fetchTask'[s].pc = "done" )
          => /\ fetchTask'[s].result.kind = "response"
             /\ <<fetchTask[s].req.url, fetchTask'[s].result.resp>>
                   \in store[STATIC_CACHE]]_vars

\* The URLs handleInstall prefetches.
PrefetchedUrls == Range(StaticUrls) \cup Range(EXTERNAL_ASSETS)

\* What the install stored for url and no later step removed: the entry of
\* the static partition or of 'external-cache'.
Prefetched(url) ==
    IF Has(store[STATIC_CACHE], url)
      THEN Get(store[STATIC_CACHE], url)
      ELSE Get(store[EXTERNAL_CACHE], url)

\* C28: after an install whose fetches all succeeded, a GET request for a
\* prefetched URL whose network call is rejected, while the partition the
\* install filled still holds the entry, is answered with that entry,
\* whichever handler the request was passed to.
C28_PrefetchedServedOffline ==
    [][\A s \in Slots :
          ( /\ skipWaitingCalled = "install"
            /\ Advances(s)
            /\ fetchTask'[s].pc = "done"
            /\ fetchTask'[s].net = "rejected"
            /\ fetchTask[s].req.method = "GET"
            /\ fetchTask[s].req.url \in PrefetchedUrls
            /\ \/ Has(store[STATIC_CACHE], fetchTask[s].req.url)
               \/ Has(store[EXTERNAL_CACHE], fetchTask[s].req.url) )
          => fetchTask'[s].result = Resolved(Prefetched(fetchTask[s].req.url))]_vars

\* C29: every cache.put a request handler has started, in the foreground or
\* after a background fetch, carries a response with a success status, and
\* the entry a settling put writes is that response.  The step in which a
\* caching handler's network call resolves with a non-success status returns
\* that response to the caller, changes no partition and starts no put; a
\* background fetch that settles changes no partition, and starts a put only
\* for a success response.
C29_OnlySuccessResponsesStored ==
    /\ [](\A p \in bg : p.kind = "put" => Ok(p.resp))
    /\ [][/\ \A p \in bg :
               SettledPut(p) =>
                  \A n \in AllCacheNames :
                     \A e \in store'[n] \ store[n] :
                        e = <<p.url, p.resp>> /\ Ok(e[2])
          /\ \A s \in Slots :
               ( /\ fetchTask[s].strategy \in CachingHandlers
                 /\ fetchTask[s].net = "pending"
                 /\ fetchTask[s].pc # "done"
                 /\ fetchTask'[s].net = "notOk" )
               => /\ fetchTask'[s].pc = "done"
                  /\ fetchTask'[s].result.kind = "response"
                  /\ ~Ok(fetchTask'[s].result.resp)
                  /\ store' = store
                  /\ bg' = bg
          /\ \A p \in bg :
               SettledFetch(p) =>
                  /\ store' = store
                  /\ \A q \in bg' \ bg : q.kind = "put" /\ Ok(q.resp)]_vars

\* networkFirst got a 404 for a page the dynamic partition has an entry for:
\* the 404 was returned, the entry is as it was and no put is in flight.
C29_Witness ==
    \E s \in Slots :
        /\ Returned(s, "networkFirst")
        /\ fetchTask[s].req = PageDoc
        /\ fetchTask[s].net = "notOk"
        /\ fetchTask[s].result = Resolved(Response(404, "Not Found"))
        /\ <<PageDoc.url, Stale>> \in store[DYNAMIC_CACHE]
        /\ bg = {}

\* C30: no step of sendCacheInfo creates, deletes or changes a partition or
\* an entry, also when the names it listed have been deleted since.
C30_CacheInfoIsReadOnly ==
    [][(info' # info \/ posted' # posted) =>
          /\ cacheNames' = cacheNames
          /\ store' = store]_vars

\* C24: a GET request that is neither image nor api, whose URL neither ends
\* in a stylesheet, script or font extension nor is a member of the
\* critical-assets list, is not classified static-asset: it gets the handler
\* of the external-resource, document or other rule, so a document
\* navigation whose URL ends with '/' or has '.js' or '.css' in it goes to
\* networkFirst.
C24_StaticAssetBySuffixOrExactMatch ==
    LET request == cls.req
        endsInAssetExtension ==
            \E e \in {<<".css">>, <<".js">>, <<".woff">>, <<".woff", "2">>} :
                EndsWith(request.url, e)
        isCriticalAsset ==
            \E i \in 1..Len(STATIC_ASSETS) :
                request.url = Resolve(STATIC_ASSETS[i])
    IN  ( /\ cls.handler # "none"
          /\ request.method = "GET"
          /\ ~isImageRequest(request)
          /\ ~isApiRequest(request)
          /\ ~endsInAssetExtension
          /\ ~isCriticalAsset )
        => cls.handler =
              IF isExternalResource(request) THEN "staleWhileRevalidate"
              ELSE IF request.destination = "document" THEN "networkFirst"
              ELSE "cacheFirst"

\* C26: self.skipWaiting() is called only by the handling of a SKIP_WAITING
\* message; no step of handleInstall calls it.
C26_SkipWaitingOnlyOnMessage ==
    [][skipWaitingCalled' # skipWaitingCalled =>
          /\ skipWaitingCalled' = "message"
          /\ inst' = inst
          /\ events' = events + 1]_vars

\* A step of the periodic cleanup.
SweepStep == sweep'.pc # sweep.pc \/ sweep'.pending # sweep.pending

\* C27: a step of the periodic cleanup removes no entry of a partition other
\* than the dynamic one, and from the dynamic partition only entries stored
\* more than one day before: an entry stored after oneDayAgo is still there
\* after the step.
C27_SweepEvictsOnlyOldDynamicEntries ==
    [][SweepStep =>
          /\ \A n \in AllCacheNames \ {DYNAMIC_CACHE} : store'[n] = store[n]
          /\ \A e \in store[DYNAMIC_CACHE] :
                e[1] \in sweep.fresh => e \in store'[DYNAMIC_CACHE]]_vars

====
